---- MODULE Spec2Model ----
(***************************************************************************)
(* A model of hyperlink's link aggregation (src/collector.rs), of the      *)
(* checker driver (src/main.rs), and of its Trie, StringInterner,          *)
(* ReusableBufRead and allocation statistics.                              *)
(*                                                                         *)
(* Hrefs are byte strings, modelled as tuples of byte values.  A witness   *)
(* is the pair (path, paragraph) that LinkState::Undefined keeps for one   *)
(* use; Option<P> is modelled with 0 for None and a positive fingerprint   *)
(* for Some(p).                                                            *)
(***************************************************************************)
EXTENDS Integers, Sequences, FiniteSets, TLC

\* ------------------------------------------------------------------ bounds

\* Number of BrokenLinkCollectors (workers) that exist in one run.
NumColl == 2
\* Total number of ingest calls over all collectors.
MaxEvents == 3

\* Number of entries the walk of base_path yields.
MaxEntries == 2
\* Total number of links the extractor emits over all HTML documents.
MaxLinks == 2

\* Number of Trie::insert calls.
MaxInserts == 3

\* Number of threads that share the StringInterner, and of intern_string calls.
NumThreads == 2
MaxCalls == 3

\* ------------------------------------------------------------- data model

\* "/a" and "/a#x" as bytes ('/' = 47, '#' = 35, 'a' = 97, 'x' = 120): a
\* document href and an anchor in it, the two keys anchor checking relates.
HrefA == <<47, 97>>
HrefAx == <<47, 97, 35, 120>>
Href == {HrefA, HrefAx}
\* "/b": a second document href.
HrefB == <<47, 98>>
\* Every href of the model: the keys the maps are indexed by.
MainHref == Href \cup {HrefB}

\* Arc<PathBuf> of the HTML documents.
Path == {"p1.html", "p2.html"}
\* Option<P>: 0 is None, 1 is Some(1).
Paragraph == {0, 1}
\* The uses the extractor emits here: a link outside any paragraph of p1.html
\* and a link inside paragraph 1 of p2.html.
Witness == {[path |-> "p1.html", paragraph |-> 0], [path |-> "p2.html", paragraph |-> 1]}

\* What a read of a freed arena slot may return that is not the value written.
Garbage == [path |-> "<freed>", paragraph |-> 0]

Coll == 1..NumColl

\* html::Link: Uses(UsedLink {href, path, paragraph}) or Defines(DefinedLink {href}).
Uses(h, p, para) == [kind |-> "Uses", href |-> h, path |-> p, paragraph |-> para]
Defines(h) == [kind |-> "Defines", href |-> h]
Link == {Uses(h, w.path, w.paragraph) : h \in Href, w \in Witness}
          \cup {Defines(h) : h \in Href}

\* Href::without_anchor: the prefix up to, not including, the first '#'.
without_anchor(h) ==
    IF \E i \in DOMAIN h : h[i] = 35
    THEN LET first == CHOOSE i \in DOMAIN h :
                          h[i] = 35 /\ \A j \in 1..(i - 1) : h[j] # 35
         IN SubSeq(h, 1, first - 1)
    ELSE h

\* Byte-wise lexicographic order of hrefs, the order of the map's keys.
RECURSIVE BytesLess(_, _)
BytesLess(a, b) ==
    IF Len(b) = 0 THEN FALSE
    ELSE IF Len(a) = 0 THEN TRUE
    ELSE IF a[1] # b[1] THEN a[1] < b[1]
    ELSE BytesLess(Tail(a), Tail(b))

\* The keys of S in ascending order.
RECURSIVE SortedKeys(_)
SortedKeys(S) ==
    IF S = {} THEN <<>>
    ELSE LET m == CHOOSE x \in S : \A y \in S \ {x} : BytesLess(x, y)
         IN <<m>> \o SortedKeys(S \ {m})

\* ------------------------------------------------------------- LinkState

\* A key that is not in the PatriciaMap.
Absent == [tag |-> "Absent"]
Defined == [tag |-> "Defined"]
\* Undefined(BumpVec): the witnesses and the arena (collector id) holding them.
Undefined(v, a) == [tag |-> "Undefined", vec |-> v, arena |-> a]

\* freed: the vector's arena has been dropped; scribbled: the freed memory
\* has been reused, so the slot written does not read back as the value.
Slot(w, freed, scribbled) == IF freed /\ scribbled THEN Garbage ELSE w

Scribble(v) == [i \in 1..Len(v) |-> Garbage]

add_usage(self, link, bump, scribbled) ==
    IF self.tag = "Undefined"
    THEN [self EXCEPT !.vec = Append(@, Slot([path |-> link.path,
                                              paragraph |-> link.paragraph],
                                             self.arena # bump, scribbled))]
    ELSE self

\* update with the arm for a Defined other lost: the witnesses are kept.
update_keeps_undefined(self, other, bump, scribbled) ==
    IF self.tag = "Defined" \/ other.tag = "Defined" THEN self
    ELSE [self EXCEPT !.vec = @ \o [i \in 1..Len(other.vec) |->
                                      Slot(other.vec[i], self.arena # bump, scribbled)]]

update(self, other, bump, scribbled) ==
    IF self.tag = "Defined" THEN self
    ELSE IF other.tag = "Defined" THEN Defined
    ELSE [self EXCEPT !.vec = @ \o [i \in 1..Len(other.vec) |->
                                      Slot(other.vec[i], self.arena # bump, scribbled)]]

\* ---------------------------------------------------- BrokenLinkCollector

NewCollector(c) ==
    [links |-> [h \in MainHref |-> Absent], used_link_count |-> 0, bump |-> c]

\* The vectors of self that are still allocated in an arena that has been
\* dropped, after the freed memory has been handed out again and written.
ScribbleFreed(self) ==
    [self EXCEPT
        !.links = [h \in MainHref |->
                      IF @[h].tag = "Undefined" /\ @[h].arena # self.bump
                      THEN [@[h] EXCEPT !.vec = Scribble(@)]
                      ELSE @[h]]]

\* A push to a vector and an insert into the map allocate; with scribbled
\* the allocation reuses the memory of a dropped arena.
ingest(self, link, scribbled) ==
    LET allocates == link.kind = "Defines" \/ self.links[link.href].tag # "Defined"
        after ==
            IF link.kind = "Uses"
            THEN [self EXCEPT
                    !.used_link_count = @ + 1,
                    !.links[link.href] =
                        IF @.tag # "Absent"
                        THEN add_usage(@, link, self.bump, scribbled)
                        ELSE add_usage(Undefined(<<>>, self.bump), link, self.bump,
                                       scribbled)]
            ELSE [self EXCEPT !.links[link.href] = Defined]
    IN IF scribbled /\ allocates THEN ScribbleFreed(after) ELSE after

\* merge without line 133: the other collector's count is lost.
merge_drops_count(self, other, scribbled) ==
    [self EXCEPT
        !.links = [h \in MainHref |->
            LET state == self.links[h]
                other_state == other.links[h]
            IN IF other_state.tag = "Absent" THEN state
               ELSE IF state.tag # "Absent"
                    THEN update(state, other_state, self.bump, scribbled)
                    ELSE other_state]]

\* other is consumed: its links are moved out and its bump is dropped when
\* merge returns, which frees every vector still allocated in it.
merge(self, other, scribbled) ==
    [self EXCEPT
        !.used_link_count = @ + other.used_link_count,
        !.links = [h \in MainHref |->
            LET state == self.links[h]
                other_state == other.links[h]
            IN IF other_state.tag = "Absent" THEN state
               ELSE IF state.tag # "Absent"
                    THEN update(state, other_state, self.bump, scribbled)
                    ELSE IF other_state.tag = "Undefined"
                              /\ other_state.arena = other.bump /\ scribbled
                         THEN [other_state EXCEPT !.vec = Scribble(@)]
                         ELSE other_state]]

BrokenLink(hard, h, w) ==
    [hard_404 |-> hard, href |-> h, path |-> w.path, paragraph |-> w.paragraph]

hard_404_of(self, h, check_anchors) ==
    IF check_anchors
    THEN ~(without_anchor(h) \in MainHref
             /\ self.links[without_anchor(h)].tag = "Defined")
    ELSE TRUE

RECURSIVE broken_links_from(_, _, _)
broken_links_from(self, keys, check_anchors) ==
    IF keys = <<>> THEN <<>>
    ELSE LET h == Head(keys)
             state == self.links[h]
             rest == broken_links_from(self, Tail(keys), check_anchors)
         IN IF state.tag = "Undefined"
            THEN [i \in 1..Len(state.vec) |->
                     BrokenLink(hard_404_of(self, h, check_anchors), h, state.vec[i])]
                 \o rest
            ELSE rest

get_broken_links(self, check_anchors) ==
    broken_links_from(self,
                      SortedKeys({h \in MainHref : self.links[h].tag # "Absent"}),
                      check_anchors)

used_links_count(self) == self.used_link_count

\* ------------------------------------------------------ UsedLinkCollector

OwnedUsedLink(link) ==
    [href |-> link.href, path |-> link.path, paragraph |-> link.paragraph]

UsedLinkCollector_new == [used_links |-> <<>>]

UsedLinkCollector_ingest(self, link) ==
    IF link.kind = "Uses"
    THEN [self EXCEPT !.used_links = Append(@, OwnedUsedLink(link))]
    ELSE self

\* merge with the two lists the other way round.
UsedLinkCollector_merge_prepends(self, other) ==
    [self EXCEPT !.used_links = other.used_links \o @]

UsedLinkCollector_merge(self, other) ==
    [self EXCEPT !.used_links = @ \o other.used_links]

\* ---------------------------------------------------------------- trie.rs

\* Option<T>: 0 is None, a positive number is Some of it.
None == 0

\* The keys inserted here, over the bytes 'a', 'b', 'c': the empty key, the
\* keys of one byte, and "b", "bb" followed by one more byte.
TrieKey ==
    {<<>>, <<98, 98>>} \cup {<<a>> : a \in {97, 98, 99}}
                        \cup {<<98, a>> : a \in {97, 99}}
                        \cup {<<98, 98, a>> : a \in {97, 98, 99}}

\* BTreeMap::new(), and the BTreeMap with key k set to v.
EmptyMap == <<>>
MapPut(m, k, v) == [x \in DOMAIN m \cup {k} |-> IF x = k THEN v ELSE m[x]]

\* Trie::default.
Trie_new ==
    [value |-> None, label |-> <<>>, lower_than |-> EmptyMap, bigger_than |-> EmptyMap]

\* The loop of lines 68-75 (and 35-42): the number of leading bytes that key
\* and label share.
RECURSIVE diverge_at_of(_, _)
diverge_at_of(key, label) ==
    IF key = <<>> \/ label = <<>> \/ Head(key) # Head(label) THEN 0
    ELSE 1 + diverge_at_of(Tail(key), Tail(label))

\* is_lower_than after that loop.
is_lower_than_of(key, label) ==
    LET d == diverge_at_of(key, label)
    IN d < Len(key) /\ d < Len(label) /\ key[d + 1] < label[d + 1]

\* insert filing every key under bigger_than.
RECURSIVE insert_always_bigger(_, _, _)
insert_always_bigger(self, key, value) ==
    IF key = <<>> THEN [self EXCEPT !.value = value]
    ELSE LET d == diverge_at_of(key, self.label)
             extends == d = Len(self.label)
             label == IF extends THEN self.label \o SubSeq(key, d + 1, Len(key))
                      ELSE self.label
             diverge_at == IF extends THEN Len(key) ELSE d
             next_key == IF extends THEN <<>> ELSE SubSeq(key, d + 1, Len(key))
             children == self.bigger_than
             child == IF diverge_at \in DOMAIN children THEN children[diverge_at]
                      ELSE Trie_new
             entry == insert_always_bigger(child, next_key, value)
         IN [self EXCEPT !.label = label,
                         !.bigger_than = MapPut(@, diverge_at, entry)]

\* Trie::insert; the trie after the call.
RECURSIVE insert(_, _, _)
insert(self, key, value) ==
    IF key = <<>> THEN [self EXCEPT !.value = value]
    ELSE LET d == diverge_at_of(key, self.label)
             is_lower_than == is_lower_than_of(key, self.label)
             extends == d = Len(self.label)
             label == IF extends THEN self.label \o SubSeq(key, d + 1, Len(key))
                      ELSE self.label
             diverge_at == IF extends THEN Len(key) ELSE d
             next_key == IF extends THEN <<>> ELSE SubSeq(key, d + 1, Len(key))
             children == IF is_lower_than THEN self.lower_than ELSE self.bigger_than
             child == IF diverge_at \in DOMAIN children THEN children[diverge_at]
                      ELSE Trie_new
             entry == insert(child, next_key, value)
         IN IF is_lower_than
            THEN [self EXCEPT !.label = label,
                              !.lower_than = MapPut(@, diverge_at, entry)]
            ELSE [self EXCEPT !.label = label,
                              !.bigger_than = MapPut(@, diverge_at, entry)]

\* The macro impl_get: the value found for key, or None.
RECURSIVE impl_get(_, _)
impl_get(self, key) ==
    IF key = <<>> THEN self.value
    ELSE LET diverge_at == diverge_at_of(key, self.label)
             children == IF is_lower_than_of(key, self.label) THEN self.lower_than
                         ELSE self.bigger_than
         IN IF diverge_at \in DOMAIN children
            THEN impl_get(children[diverge_at], SubSeq(key, diverge_at + 1, Len(key)))
            ELSE None

get(self, key) == impl_get(self, key)
get_mut(self, key) == impl_get(self, key)

\* Trie::into_iter.
into_iter(self) ==
    [next_tries |-> <<>>, current_trie |-> <<<<>>, self>>, next_value |-> <<>>]

\* The keys of a BTreeMap in ascending order.
RECURSIVE MapKeys(_)
MapKeys(S) ==
    IF S = {} THEN <<>>
    ELSE LET m == CHOOSE x \in S : \A y \in S : x <= y
         IN <<m>> \o MapKeys(S \ {m})

\* Lines 137-145 with the whole label added to the prefix of a child.
pushed_with_label(prefix, trie, children) ==
    LET keys == MapKeys(DOMAIN children)
    IN [i \in 1..Len(keys) |-> <<prefix \o trie.label, children[keys[i]]>>]

\* Lines 137-145 for one of the two maps: per child, in key order, the pair
\* of prefix ++ label[..diverged_at] and the child.
pushed(prefix, trie, children) ==
    LET keys == MapKeys(DOMAIN children)
    IN [i \in 1..Len(keys) |->
          <<prefix \o SubSeq(trie.label, 1, keys[i]), children[keys[i]]>>]

\* IntoIter::next: the iterator after the call and the item returned (<<>>
\* for None); the slice label[..diverged_at] panics when out of range.
RECURSIVE IntoIter_next(_)
IntoIter_next(self) ==
    IF self.next_value # <<>>
    THEN [iter |-> [self EXCEPT !.next_value = <<>>], item |-> self.next_value]
    ELSE IF self.current_trie # <<>>
    THEN LET prefix == self.current_trie[1]
             trie == self.current_trie[2]
         IN IF \E d \in DOMAIN trie.lower_than \cup DOMAIN trie.bigger_than :
                   d > Len(trie.label)
            THEN [iter |-> self, item |-> "panic"]
            ELSE IntoIter_next(
                   [next_tries |-> self.next_tries
                                     \o pushed(prefix, trie, trie.lower_than)
                                     \o pushed(prefix, trie, trie.bigger_than),
                    current_trie |-> <<>>,
                    next_value |-> IF trie.value # None THEN <<prefix, trie.value>>
                                   ELSE <<>>])
    ELSE IF self.next_tries # <<>>
    THEN IntoIter_next(
           [self EXCEPT !.current_trie = self.next_tries[Len(self.next_tries)],
                        !.next_tries = SubSeq(@, 1, Len(@) - 1)])
    ELSE [iter |-> self, item |-> <<>>]

\* ------------------------------------------------------------ interner.rs

Thread == 1..NumThreads
\* The strings interned here: "", "a" and "b".
InternString == {<<>>, <<97>>, <<98>>}

\* A handle (&str into the arena) is the number of the allocation it points
\* to; the arena is the sequence of the strings copied into it.
\* map.get(s) at line 15: the handle in the set whose bytes equal s, if any.
map_get(arena, map, str) ==
    IF \E h \in map : arena[h] = str
    THEN CHOOSE h \in map : arena[h] = str
    ELSE None

\* ------------------------------------------------------------ main.rs data

\* The hrefs Document::new gives to files on disk.
FileHref == {HrefA, HrefB}

\* The path of the i-th HTML document that the walk of base_path finds.
EntryPath(i) == IF i = 1 THEN "p1.html" ELSE IF i = 2 THEN "p2.html"
                ELSE IF i = 3 THEN "p3.html" ELSE "p4.html"
\* The Markdown sources found under --sources, in walk order.
SourcePath == <<"s1.md", "s2.md">>
\* PathBuf's order on every path a defect can be reported against.
PathOrder == <<"p1.html", "p2.html", "p3.html", "p4.html", "s1.md", "s2.md">>
AllPath == {PathOrder[i] : i \in DOMAIN PathOrder}

BoundedSeq(S, n) == UNION {[1..k -> S] : k \in 0..n}

\* The links the extractor can emit for the document at path: a use of any
\* href, a define of a document or of an anchor in it.  A use carries a
\* paragraph fingerprint only when paragraphs are asked for.
LinksOf(path, want_paragraphs) ==
    {Uses(h, path, para) : h \in MainHref,
                           para \in IF want_paragraphs THEN Paragraph ELSE {0}}
      \cup {Defines(h) : h \in Href}

\* (BTreeMap::new(), BTreeSet::new()); a key with no links is not in the map.
Identity == [used_links |-> [h \in MainHref |-> <<>>], defined_links |-> {}]

\* The closure handed to document.links (main.rs 109-120), for one link.
on_link(acc, link) ==
    IF link.kind = "Uses"
    THEN [acc EXCEPT !.used_links[link.href] = Append(@, link)]
    ELSE [acc EXCEPT !.defined_links = @ \cup {link.href}]

\* The try_fold closure for one document whose extraction succeeds.
RECURSIVE fold_document(_, _)
fold_document(acc, links) ==
    IF links = <<>> THEN acc
    ELSE fold_document(on_link(acc, Head(links)), Tail(links))

\* Lines 130-133 with insert in place of entry().or_insert_with().extend():
\* the links of a href that both sides have are replaced, not appended to.
reduce_overwrites(a, b) ==
    [used_links |-> [h \in MainHref |-> IF b.used_links[h] # <<>> THEN b.used_links[h]
                                        ELSE a.used_links[h]],
     defined_links |-> a.defined_links \cup b.defined_links]

\* The try_reduce closure.
reduce(a, b) ==
    [used_links |-> [h \in MainHref |-> a.used_links[h] \o b.used_links[h]],
     defined_links |-> a.defined_links \cup b.defined_links]

\* used_links.len(): the number of keys of the map.
used_links_len_of(used) == Cardinality({h \in MainHref : used[h] # <<>>})

\* Line 209 looking up the href itself, the anchor not stripped.
hard_404_main_keeps_anchor(defined, href, anchors) ==
    ~anchors \/ ~(href \in defined)

\* main.rs 209.
hard_404_main(defined, href, anchors) ==
    ~anchors \/ ~(without_anchor(href) \in defined)

\* The keys of the paragraph map.
HasSources(pmap, para) == para # 0 /\ pmap[para] # <<>>

\* Lines 216-241 without the had_sources flag: the HTML path is always added.
destinations_and_own_path(pmap, link) ==
    IF HasSources(pmap, link.paragraph) THEN pmap[link.paragraph] \o <<link.path>>
    ELSE <<link.path>>

\* main.rs 216-241 for one link of a broken href: the destination files the
\* href is pushed to, in order.
destinations(pmap, link) ==
    IF HasSources(pmap, link.paragraph) THEN pmap[link.paragraph]
    ELSE <<link.path>>

\* Push href to bad_links or bad_anchors of every destination.
RECURSIVE push_all(_, _, _, _)
push_all(bad, dests, href, hard) ==
    IF dests = <<>> THEN bad
    ELSE push_all(IF hard
                  THEN [bad EXCEPT ![Head(dests)].bad_links = Append(@, href)]
                  ELSE [bad EXCEPT ![Head(dests)].bad_anchors = Append(@, href)],
                  Tail(dests), href, hard)

RECURSIVE route_links(_, _, _, _, _)
route_links(bad, pmap, links, href, hard) ==
    IF links = <<>> THEN bad
    ELSE route_links(push_all(bad, destinations(pmap, Head(links)), href, hard),
                     pmap, Tail(links), href, hard)

\* An entry of bad_links_and_anchors with nothing pushed is not in the map.
NoDefects == [f \in AllPath |-> [bad_links |-> <<>>, bad_anchors |-> <<>>]]

\* main.rs 207-243: the loop over used_links in key order.
RECURSIVE classify(_, _, _, _, _, _)
classify(st, keys, used, defined, pmap, anchors) ==
    IF keys = <<>> THEN st
    ELSE LET href == Head(keys)
             hard == hard_404_main(defined, href, anchors)
             next == IF href \in defined THEN st
                     ELSE [bad |-> route_links(st.bad, pmap, used[href], href, hard),
                           bad_links_count |-> st.bad_links_count + (IF hard THEN 1 ELSE 0),
                           bad_anchors_count |-> st.bad_anchors_count + (IF hard THEN 0 ELSE 1)]
         IN classify(next, Tail(keys), used, defined, pmap, anchors)

\* Lines 247-253 with the two loops in the other order.
RECURSIVE report_anchors_first(_, _)
report_anchors_first(bad, paths) ==
    IF paths = <<>> THEN <<>>
    ELSE LET f == Head(paths)
             e == bad[f]
         IN (IF e.bad_links = <<>> /\ e.bad_anchors = <<>> THEN <<>>
             ELSE <<[line |-> "file", file |-> f, href |-> <<>>]>>
                  \o [i \in 1..Len(e.bad_anchors) |->
                        [line |-> "warning: bad anchor", file |-> f, href |-> e.bad_anchors[i]]]
                  \o [i \in 1..Len(e.bad_links) |->
                        [line |-> "error: bad link", file |-> f, href |-> e.bad_links[i]]])
            \o report_anchors_first(bad, Tail(paths))

\* main.rs 245-280 (without --github-actions): the report lines.
RECURSIVE report(_, _)
report(bad, paths) ==
    IF paths = <<>> THEN <<>>
    ELSE LET f == Head(paths)
             e == bad[f]
         IN (IF e.bad_links = <<>> /\ e.bad_anchors = <<>> THEN <<>>
             ELSE <<[line |-> "file", file |-> f, href |-> <<>>]>>
                  \o [i \in 1..Len(e.bad_links) |->
                        [line |-> "error: bad link", file |-> f, href |-> e.bad_links[i]]]
                  \o [i \in 1..Len(e.bad_anchors) |->
                        [line |-> "warning: bad anchor", file |-> f, href |-> e.bad_anchors[i]]])
            \o report(bad, Tail(paths))

\* main.rs 282-288: the summary lines.
summary(links, files, nbad, nanchors, anchors) ==
    <<[line |-> "Checked links", n |-> links],
      [line |-> "Checked files", n |-> files],
      [line |-> "Found bad links", n |-> nbad]>>
    \o (IF anchors THEN <<[line |-> "Found bad anchors", n |-> nanchors]>> ELSE <<>>)

\* Lines 294-300 with the two tests in the other order.
exit_status_anchors_first(nbad, nanchors) ==
    IF nanchors > 0 THEN 2 ELSE IF nbad > 0 THEN 1 ELSE 0

\* main.rs 294-302.
exit_status(nbad, nanchors) ==
    IF nbad > 0 THEN 1 ELSE IF nanchors > 0 THEN 2 ELSE 0

\* No Err.
NoError == [context |-> "", path |-> ""]

\* Lines 121 and 186 without with_context: the Err does not name the file.
failed_to_read_without_context(path) == [context |-> "", path |-> ""]

\* main.rs 121, 186: the Err with the context "Failed to read file {path}".
failed_to_read(path) == [context |-> "Failed to read file", path |-> path]

\* ------------------------------------------------------------------ state

VARIABLES
    \* collector.rs: the collectors, by id
    colls,
    \* the ids of the collectors not yet consumed by a merge
    live,
    \* per collector, the events ingested by it or by a collector merged into it
    hist,
    \* per collector, how many of the events of hist reached it through a merge
    merged_events,
    \* number of ingest calls made so far
    nevents,
    \* main.rs: the phase main is in
    pc,
    \* Cli: --check-anchors, and whether --sources is given
    check_anchors, sources_path,
    \* the entries that the walk of base_path has yielded (empty again when
    \* the loop over it has ended)
    walk,
    \* main.rs 61-62
    file_hrefs, documents,
    \* the (used_links, defined_links) accumulators of the parallel fold, in
    \* document order, and the number of documents folded so far
    parts, nfolded,
    \* per folded document, the links the extractor emitted for it
    extracted,
    \* main.rs 141
    used_links, defined_links,
    \* main.rs 144
    paragraps_to_sourcefile,
    \* main.rs 202-205
    used_links_len, bad_links_and_anchors, bad_links_count, bad_anchors_count,
    \* the lines printed after "Checking ... files", and the process exit code
    \* (-1 while running)
    stdout, exit_code,
    \* the Err that main returns from extraction (NoError while there is none)
    error,
    \* per accumulator of parts, the number of calls of the try_reduce closure
    \* that made it (0 for an accumulator no reduction has touched)
    shards,
    \* collector.rs: the UsedLinkCollectors, by id, and the ids not yet
    \* consumed by a merge
    used_colls, used_live,
    \* per UsedLinkCollector, the events ingested by it and by the collectors
    \* merged into it: its own, then those of each merged collector
    used_hist,
    \* trie.rs: the Trie, and per key the value of the last insert (None if
    \* there was none)
    trie, trie_last, ninserts,
    \* the IntoIter made of the trie (<<>> before into_iter), the items its
    \* next has returned, and whether next has returned None
    trie_iter, trie_items, exhausted,
    \* interner.rs: StringInterner::arena and ::map, and the thread holding
    \* the Mutex (0 when it is free)
    interner_arena, interner_map, interner_mutex,
    \* per thread: where it is in intern_string, the argument s, and rv
    intern_pc, intern_s, intern_rv,
    \* the calls that have returned, as (thread, s, handle), and the number of
    \* calls made
    intern_returned, ncalls,
    \* reusablebufread.rs: ReusableBufRead::reader, a BufReader (its buffer's
    \* filled bytes and pos) over Inner (the MaybeUninit slot)
    reader,
    \* the Leases that exist, each named by the number of the lease call that
    \* made it, and the number of lease calls made
    leases, nleases,
    \* the bytes handed out through each Lease, as (lease, byte)
    lease_out,
    \* the readers that were dropped, in the order of their drops; the
    \* readers overwritten in the slot without a drop; and whether a read
    \* has reached the slot while it was uninitialized
    dropped, overwritten, read_uninit,
    \* alloc.rs: the map behind RESULTS and the thread holding its Mutex (0
    \* when it is free)
    RESULTS, results_mutex,
    \* per thread: where it is in a callback or in print_alloc_stats, and the
    \* use case and signed size of its callback
    alloc_pc, alloc_arg,
    \* per use case: the bytes of all on_alloc and of all on_dealloc
    \* callbacks made
    allocated, deallocated,
    \* the number of callbacks made, and the lines print_alloc_stats printed
    ncallbacks, alloc_stdout,
    \* one Stat, and the sizes that record was called with on it
    stat, stat_sizes

\* The empty multiset of events.
NoEvents == [l \in Link |-> 0]

\* The number of events of a multiset.
RECURSIVE SumOver(_, _)
SumOver(bag, S) ==
    IF S = {} THEN 0
    ELSE LET l == CHOOSE l \in S : TRUE IN bag[l] + SumOver(bag, S \ {l})
NumEvents(bag) == SumOver(bag, Link)

collVars == <<colls, live, hist, merged_events, nevents>>
mainVars == <<pc, check_anchors, sources_path, walk, file_hrefs, documents,
              parts, nfolded, extracted, used_links, defined_links,
              paragraps_to_sourcefile, used_links_len, bad_links_and_anchors,
              bad_links_count, bad_anchors_count, stdout, exit_code, error, shards>>
usedVars == <<used_colls, used_live, used_hist>>
trieVars == <<trie, trie_last, ninserts, trie_iter, trie_items, exhausted>>
internVars == <<interner_arena, interner_map, interner_mutex, intern_pc, intern_s,
                intern_rv, intern_returned, ncalls>>
bufVars == <<reader, leases, nleases, lease_out, dropped, overwritten, read_uninit>>
allocVars == <<RESULTS, results_mutex, alloc_pc, alloc_arg, allocated, deallocated,
               ncallbacks, alloc_stdout, stat, stat_sizes>>
vars == <<collVars, mainVars, usedVars, trieVars, internVars, bufVars, allocVars>>

Ingest(c, link) ==
    /\ c \in live
    /\ nevents < MaxEvents
    /\ \E scribbled \in BOOLEAN :
          colls' = [colls EXCEPT ![c] = ingest(@, link, scribbled)]
    /\ hist' = [hist EXCEPT ![c][link] = @ + 1]
    /\ nevents' = nevents + 1
    /\ UNCHANGED <<live, merged_events, mainVars, usedVars, trieVars, internVars,
                   bufVars, allocVars>>

Merge(a, b) ==
    /\ a \in live /\ b \in live /\ a # b
    /\ \E scribbled \in BOOLEAN :
          colls' = [colls EXCEPT ![a] = merge(@, colls[b], scribbled),
                                 ![b] = NewCollector(b)]
    /\ hist' = [hist EXCEPT ![a] = [l \in Link |-> @[l] + hist[b][l]], ![b] = NoEvents]
    /\ merged_events' = [merged_events EXCEPT ![a] = @ + NumEvents(hist[b]) + merged_events[b],
                                            ![b] = 0]
    /\ live' = live \ {b}
    /\ UNCHANGED <<nevents, mainVars, usedVars, trieVars, internVars,
                   bufVars, allocVars>>

CollNext ==
    \/ \E c \in Coll, link \in Link : Ingest(c, link)
    \/ \E a \in Coll, b \in Coll : Merge(a, b)

\* The number of events the live UsedLinkCollectors have received.
RECURSIVE UsedEvents(_)
UsedEvents(S) ==
    IF S = {} THEN 0
    ELSE LET c == CHOOSE c \in S : TRUE IN Len(used_hist[c]) + UsedEvents(S \ {c})

UsedIngest(c, link) ==
    /\ c \in used_live
    /\ UsedEvents(used_live) < MaxEvents
    /\ used_colls' = [used_colls EXCEPT ![c] = UsedLinkCollector_ingest(@, link)]
    /\ used_hist' = [used_hist EXCEPT ![c] = Append(@, link)]
    /\ UNCHANGED <<used_live, collVars, mainVars, trieVars, internVars,
                   bufVars, allocVars>>

UsedMerge(a, b) ==
    /\ a \in used_live /\ b \in used_live /\ a # b
    /\ used_colls' = [used_colls EXCEPT ![a] = UsedLinkCollector_merge(@, used_colls[b]),
                                        ![b] = UsedLinkCollector_new]
    /\ used_hist' = [used_hist EXCEPT ![a] = @ \o used_hist[b], ![b] = <<>>]
    /\ used_live' = used_live \ {b}
    /\ UNCHANGED <<collVars, mainVars, trieVars, internVars,
                   bufVars, allocVars>>

UsedNext ==
    \/ \E c \in Coll, link \in Link : UsedIngest(c, link)
    \/ \E a \in Coll, b \in Coll : UsedMerge(a, b)

\* Trie::insert of value number ninserts + 1.
TrieInsert(key) ==
    /\ trie_iter = <<>>
    /\ ninserts < MaxInserts
    /\ trie' = insert(trie, key, ninserts + 1)
    /\ trie_last' = [trie_last EXCEPT ![key] = ninserts + 1]
    /\ ninserts' = ninserts + 1
    /\ UNCHANGED <<trie_iter, trie_items, exhausted, collVars, mainVars, usedVars, internVars,
                   bufVars, allocVars>>

\* Trie::into_iter: the trie is moved into the iterator.
TrieIntoIter ==
    /\ trie_iter = <<>>
    /\ trie_iter' = into_iter(trie)
    /\ UNCHANGED <<trie, trie_last, ninserts, trie_items, exhausted,
                   collVars, mainVars, usedVars, internVars,
                   bufVars, allocVars>>

\* One call of IntoIter::next.
TrieIterNext ==
    /\ trie_iter # <<>> /\ ~exhausted
    /\ LET r == IntoIter_next(trie_iter)
       IN /\ trie_iter' = r.iter
          /\ IF r.item = <<>>
             THEN exhausted' = TRUE /\ UNCHANGED trie_items
             ELSE trie_items' = Append(trie_items, r.item) /\ UNCHANGED exhausted
    /\ UNCHANGED <<trie, trie_last, ninserts, collVars, mainVars, usedVars, internVars,
                   bufVars, allocVars>>

TrieNext ==
    \/ \E key \in TrieKey : TrieInsert(key)
    \/ TrieIntoIter
    \/ TrieIterNext

\* A thread calls intern_string(s).
InternCall(t, str) ==
    /\ intern_pc[t] = "idle"
    /\ ncalls < MaxCalls
    /\ ncalls' = ncalls + 1
    /\ intern_s' = [intern_s EXCEPT ![t] = str]
    /\ intern_pc' = [intern_pc EXCEPT ![t] = "lock"]
    /\ UNCHANGED <<interner_arena, interner_map, interner_mutex, intern_rv,
                   intern_returned, collVars, mainVars, usedVars, trieVars,
                   bufVars, allocVars>>

\* Line 14 not waiting for the Mutex.
InternLock_without_mutex(t) ==
    /\ intern_pc[t] = "lock"
    /\ interner_mutex' = t
    /\ intern_pc' = [intern_pc EXCEPT ![t] = "get"]
    /\ UNCHANGED <<interner_arena, interner_map, intern_s, intern_rv,
                   intern_returned, ncalls, collVars, mainVars, usedVars, trieVars,
                   bufVars, allocVars>>

\* interner.rs 14: self.map.lock() returns when no thread holds the Mutex.
InternLock(t) ==
    /\ intern_pc[t] = "lock"
    /\ interner_mutex = 0
    /\ interner_mutex' = t
    /\ intern_pc' = [intern_pc EXCEPT ![t] = "get"]
    /\ UNCHANGED <<interner_arena, interner_map, intern_s, intern_rv,
                   intern_returned, ncalls, collVars, mainVars, usedVars, trieVars,
                   bufVars, allocVars>>

\* interner.rs 15-16: the lookup, and the arm for a string that is in the map.
InternGet(t) ==
    /\ intern_pc[t] = "get"
    /\ LET rv == map_get(interner_arena, interner_map, intern_s[t])
       IN /\ intern_rv' = [intern_rv EXCEPT ![t] = rv]
          /\ intern_pc' = [intern_pc EXCEPT ![t] = IF rv = None THEN "alloc" ELSE "return"]
    /\ UNCHANGED <<interner_arena, interner_map, interner_mutex, intern_s,
                   intern_returned, ncalls, collVars, mainVars, usedVars, trieVars,
                   bufVars, allocVars>>

\* interner.rs 17-28: the string is copied into the arena and the slice is
\* inserted into the map.
InternAlloc(t) ==
    /\ intern_pc[t] = "alloc"
    /\ interner_arena' = Append(interner_arena, intern_s[t])
    /\ interner_map' = interner_map \cup {Len(interner_arena) + 1}
    /\ intern_rv' = [intern_rv EXCEPT ![t] = Len(interner_arena) + 1]
    /\ intern_pc' = [intern_pc EXCEPT ![t] = "return"]
    /\ UNCHANGED <<interner_mutex, intern_s, intern_returned, ncalls,
                   collVars, mainVars, usedVars, trieVars,
                   bufVars, allocVars>>

\* interner.rs 31: the MutexGuard is dropped and rv is returned.
InternReturn(t) ==
    /\ intern_pc[t] = "return"
    /\ interner_mutex' = 0
    /\ intern_returned' = intern_returned
                            \cup {[thread |-> t, s |-> intern_s[t], handle |-> intern_rv[t]]}
    /\ intern_pc' = [intern_pc EXCEPT ![t] = "idle"]
    /\ UNCHANGED <<interner_arena, interner_map, intern_s, intern_rv, ncalls,
                   collVars, mainVars, usedVars, trieVars,
                   bufVars, allocVars>>

InternNext ==
    \/ \E t \in Thread, str \in InternString : InternCall(t, str)
    \/ \E t \in Thread : InternLock(t)
    \/ \E t \in Thread : InternGet(t)
    \/ \E t \in Thread : InternAlloc(t)
    \/ \E t \in Thread : InternReturn(t)

\* ---------------------------------------------------------------- main.rs

MainStart(phase) ==
    /\ pc = phase
    /\ walk = <<>>
    /\ file_hrefs = {}
    /\ documents = <<>>
    /\ parts = <<>>
    /\ nfolded = 0
    /\ extracted = <<>>
    /\ used_links = Identity.used_links
    /\ defined_links = {}
    /\ paragraps_to_sourcefile = [para \in Paragraph \ {0} |-> <<>>]
    /\ used_links_len = 0
    /\ bad_links_and_anchors = NoDefects
    /\ bad_links_count = 0
    /\ bad_anchors_count = 0
    /\ stdout = <<>>
    /\ exit_code = -1
    /\ error = NoError
    /\ shards = <<>>

\* main.rs 71-76: the walk meets a symlink; main returns Err.
DiscoverSymlink ==
    /\ pc = "discover" /\ Len(walk) < MaxEntries
    /\ pc' = "failed: symlink"
    /\ exit_code' = 1
    /\ walk' = Append(walk, [kind |-> "symlink"])
    /\ UNCHANGED <<collVars, usedVars, trieVars, internVars, check_anchors, sources_path, file_hrefs, documents,
                   parts, nfolded, extracted, used_links, defined_links,
                   paragraps_to_sourcefile, used_links_len, bad_links_and_anchors,
                   bad_links_count, bad_anchors_count, stdout, error, shards,
                   bufVars, allocVars>>

\* main.rs 78-80: a directory.
DiscoverDirectory ==
    /\ pc = "discover" /\ Len(walk) < MaxEntries
    /\ walk' = Append(walk, [kind |-> "dir"])
    /\ UNCHANGED <<collVars, usedVars, trieVars, internVars, pc, check_anchors, sources_path, file_hrefs, documents,
                   parts, nfolded, extracted, used_links, defined_links,
                   paragraps_to_sourcefile, used_links_len, bad_links_and_anchors,
                   bad_links_count, bad_anchors_count, stdout, exit_code, error, shards,
                   bufVars, allocVars>>

\* Lines 82-94 without the test of file_hrefs.insert's result.
discover_file_unchecked(href, is_html) ==
    /\ walk' = Append(walk, [kind |-> "file", href |-> href, is_html |-> is_html])
    /\ file_hrefs' = file_hrefs \cup {href}
    /\ documents' = IF is_html
                    THEN Append(documents, [path |-> EntryPath(Len(documents) + 1),
                                            href |-> href])
                    ELSE documents
    /\ UNCHANGED <<pc, exit_code,
                   bufVars, allocVars>>

\* main.rs 82-94: a regular file whose document href is href; is_html tells
\* whether its extension is html or htm.
discover_file(href, is_html) ==
    /\ walk' = Append(walk, [kind |-> "file", href |-> href, is_html |-> is_html])
    /\ IF href \in file_hrefs
       THEN /\ pc' = "failed: two files with one href"
            /\ exit_code' = 101
            /\ UNCHANGED <<file_hrefs, documents,
                   bufVars, allocVars>>
       ELSE /\ file_hrefs' = file_hrefs \cup {href}
            /\ documents' = IF is_html
                            THEN Append(documents, [path |-> EntryPath(Len(documents) + 1),
                                                    href |-> href])
                            ELSE documents
            /\ UNCHANGED <<pc, exit_code,
                   bufVars, allocVars>>

DiscoverFile ==
    /\ pc = "discover" /\ Len(walk) < MaxEntries
    /\ \E href \in FileHref, is_html \in BOOLEAN : discover_file(href, is_html)
    /\ UNCHANGED <<collVars, usedVars, trieVars, internVars, check_anchors, sources_path,
                   parts, nfolded, extracted, used_links, defined_links,
                   paragraps_to_sourcefile, used_links_len, bad_links_and_anchors,
                   bad_links_count, bad_anchors_count, stdout, error, shards,
                   bufVars, allocVars>>

\* main.rs 95-101: the walk is exhausted and its iterator is dropped.
EndDiscovery ==
    /\ pc = "discover"
    /\ pc' = "extract"
    /\ walk' = <<>>
    /\ UNCHANGED <<collVars, usedVars, trieVars, internVars, check_anchors, sources_path, file_hrefs, documents,
                   parts, nfolded, extracted, used_links, defined_links,
                   paragraps_to_sourcefile, used_links_len, bad_links_and_anchors,
                   bad_links_count, bad_anchors_count, stdout, exit_code, error, shards,
                   bufVars, allocVars>>

NumLinks == LET RECURSIVE total(_)
                total(e) == IF e = <<>> THEN 0 ELSE Len(Head(e).links) + total(Tail(e))
            IN total(extracted)

\* main.rs 105-125: the next document is folded, into the accumulator of the
\* part being folded or (split) into a fresh one.
fold_next(links, split) ==
    LET acc == IF split \/ parts = <<>> THEN Identity ELSE parts[Len(parts)]
        kept == IF split \/ parts = <<>> THEN parts ELSE SubSeq(parts, 1, Len(parts) - 1)
    IN Append(kept, fold_document(acc, links))

FoldDocument ==
    /\ pc = "extract" /\ nfolded < Len(documents)
    /\ LET document == documents[nfolded + 1]
       IN \E links \in BoundedSeq(LinksOf(document.path, sources_path),
                                       MaxLinks - NumLinks),
             split \in BOOLEAN :
             /\ parts' = fold_next(links, split)
             /\ shards' = IF split \/ parts = <<>> THEN Append(shards, 0) ELSE shards
             /\ extracted' = Append(extracted, [path |-> document.path, links |-> links])
    /\ nfolded' = nfolded + 1
    /\ UNCHANGED <<collVars, usedVars, trieVars, internVars, pc, check_anchors, sources_path, walk, file_hrefs, documents,
                   used_links, defined_links,
                   paragraps_to_sourcefile, used_links_len, bad_links_and_anchors,
                   bad_links_count, bad_anchors_count, stdout, exit_code, error,
                   bufVars, allocVars>>

\* main.rs 121: document.links returns Err for a document that is not folded
\* yet; try_reduce short-circuits and main returns the Err at line 141.
FoldError ==
    /\ pc = "extract"
    /\ \E i \in (nfolded + 1)..Len(documents) :
          error' = failed_to_read(documents[i].path)
    /\ pc' = "failed: extraction"
    /\ exit_code' = 1
    /\ UNCHANGED <<collVars, usedVars, trieVars, internVars, check_anchors, sources_path, walk, file_hrefs, documents,
                   parts, nfolded, extracted, used_links, defined_links,
                   paragraps_to_sourcefile, used_links_len, bad_links_and_anchors,
                   bad_links_count, bad_anchors_count, stdout, shards,
                   bufVars, allocVars>>

\* The number of accumulators made so far: those left and one per reduction.
RECURSIVE SumSeq(_)
SumSeq(q) == IF q = <<>> THEN 0 ELSE Head(q) + SumSeq(Tail(q))
NumAccumulators == Len(parts) + SumSeq(shards)

\* main.rs 127: a worker starts its reduction from try_reduce's identity,
\* which stands left of the accumulators it reduces.
ReduceIdentity ==
    /\ pc = "extract" /\ nfolded = Len(documents)
    /\ NumAccumulators <= Len(documents)
    /\ \E i \in 0..Len(parts) :
          /\ parts' = SubSeq(parts, 1, i) \o <<Identity>> \o SubSeq(parts, i + 1, Len(parts))
          /\ shards' = SubSeq(shards, 1, i) \o <<0>> \o SubSeq(shards, i + 1, Len(shards))
    /\ UNCHANGED <<collVars, usedVars, trieVars, internVars, pc, check_anchors,
                   sources_path, walk, file_hrefs, documents,
                   nfolded, extracted, used_links, defined_links,
                   paragraps_to_sourcefile, used_links_len, bad_links_and_anchors,
                   bad_links_count, bad_anchors_count, stdout, exit_code, error,
                   bufVars, allocVars>>

\* main.rs 126-138: two adjacent parts are reduced.
Reduce ==
    /\ pc = "extract" /\ nfolded = Len(documents)
    /\ \E i \in 1..(Len(parts) - 1) :
          /\ parts' = SubSeq(parts, 1, i - 1) \o <<reduce(parts[i], parts[i + 1])>>
                        \o SubSeq(parts, i + 2, Len(parts))
          /\ shards' = SubSeq(shards, 1, i - 1) \o <<shards[i] + shards[i + 1] + 1>>
                         \o SubSeq(shards, i + 2, Len(shards))
    /\ UNCHANGED <<collVars, usedVars, trieVars, internVars, pc, check_anchors, sources_path, walk, file_hrefs, documents,
                   nfolded, extracted, used_links, defined_links,
                   paragraps_to_sourcefile, used_links_len, bad_links_and_anchors,
                   bad_links_count, bad_anchors_count, stdout, exit_code, error,
                   bufVars, allocVars>>

\* Line 142 left out.
seeded_nothing(defined, hrefs) == defined

\* main.rs 141-142.
seeded(defined, hrefs) == defined \cup hrefs

FinishExtraction ==
    /\ pc = "extract" /\ nfolded = Len(documents) /\ Len(parts) <= 1
    /\ LET result == IF parts = <<>> THEN Identity ELSE parts[1]
       IN /\ used_links' = result.used_links
          /\ defined_links' = seeded(result.defined_links, file_hrefs)
    /\ parts' = <<>>
    /\ shards' = <<>>
    /\ pc' = "sources"
    /\ UNCHANGED <<collVars, usedVars, trieVars, internVars, check_anchors, sources_path, walk, file_hrefs, documents,
                   nfolded, extracted,
                   paragraps_to_sourcefile, used_links_len, bad_links_and_anchors,
                   bad_links_count, bad_anchors_count, stdout, exit_code, error,
                   bufVars, allocVars>>

\* The paragraph lists a Markdown source can have.
SourceParagraphs == {<<>>, <<1>>}

\* main.rs 191-199: results is, per source in order, its paragraphs.
RECURSIVE map_paragraphs(_, _, _)
map_paragraphs(pmap, source, paragraphs) ==
    IF paragraphs = <<>> THEN pmap
    ELSE map_paragraphs([pmap EXCEPT ![Head(paragraphs)] = Append(@, source)],
                        source, Tail(paragraphs))

RECURSIVE map_sources(_, _, _)
map_sources(pmap, results, i) ==
    IF i > Len(results) THEN pmap
    ELSE map_sources(map_paragraphs(pmap, SourcePath[i], results[i]), results, i + 1)

\* main.rs 186/192: a Markdown source fails to parse; main returns Err.
SourceError ==
    /\ pc = "sources" /\ sources_path
    /\ \E i \in DOMAIN SourcePath : error' = failed_to_read(SourcePath[i])
    /\ pc' = "failed: source"
    /\ exit_code' = 1
    /\ UNCHANGED <<collVars, usedVars, trieVars, internVars, check_anchors, sources_path, walk, file_hrefs, documents,
                   parts, nfolded, extracted, used_links, defined_links,
                   paragraps_to_sourcefile, used_links_len, bad_links_and_anchors,
                   bad_links_count, bad_anchors_count, stdout, shards,
                   bufVars, allocVars>>

\* main.rs 146-200: the paragraph map for the paragraphs of the sources.
paragraph_map(results) ==
    map_sources([para \in Paragraph \ {0} |-> <<>>], results, 1)

\* main.rs 144-302: the paragraph map, classification, the report, the
\* summary and the exit; results is, per source, the paragraphs extracted.
report_with(results) ==
    LET pmap == IF sources_path THEN paragraph_map(results)
                ELSE paragraps_to_sourcefile
        st == classify([bad |-> NoDefects, bad_links_count |-> 0,
                        bad_anchors_count |-> 0],
                       SortedKeys({h \in MainHref : used_links[h] # <<>>}),
                       used_links, defined_links, pmap, check_anchors)
        len == used_links_len_of(used_links)
    IN /\ paragraps_to_sourcefile' = pmap
       /\ used_links_len' = len
       /\ bad_links_and_anchors' = st.bad
       /\ bad_links_count' = st.bad_links_count
       /\ bad_anchors_count' = st.bad_anchors_count
       /\ stdout' = report(st.bad, PathOrder)
                      \o summary(len, Len(documents), st.bad_links_count,
                                 st.bad_anchors_count, check_anchors)
       /\ exit_code' = exit_status(st.bad_links_count, st.bad_anchors_count)

Report ==
    /\ pc = "sources"
    /\ \E results \in [DOMAIN SourcePath -> SourceParagraphs] : report_with(results)
    /\ pc' = "done"
    /\ UNCHANGED <<collVars, usedVars, trieVars, internVars, check_anchors, sources_path, walk, file_hrefs, documents,
                   parts, nfolded, extracted, used_links, defined_links, error, shards,
                   bufVars, allocVars>>

MainNext ==
    \/ DiscoverSymlink
    \/ DiscoverDirectory
    \/ DiscoverFile
    \/ EndDiscovery
    \/ FoldDocument
    \/ FoldError
    \/ ReduceIdentity
    \/ Reduce
    \/ FinishExtraction
    \/ SourceError
    \/ Report

\* ------------------------------------------------------ reusablebufread.rs

\* Number of lease calls, and the most bytes one reader yields.
MaxLeases == 2
MaxBytes == 2
\* The capacity of the BufReader: 5_000_000 in the source (line 13), scaled
\* down so that a read can ask for as much as the whole buffer.
Capacity == 2

Min(a, b) == IF a < b THEN a ELSE b

\* The Leases, named by the number of the lease call that makes them.
LeaseId == 1..MaxLeases

\* A reader R is the number of the lease call it was passed to (id), the
\* number of bytes it has yielded (done) and the number it still yields
\* (left).  A byte is the reader that produced it and its index in that
\* reader's input.
\* The slot before lease has written a reader into it, and after the drop.
Uninit == [id |-> 0, done |-> 0, left |-> 0]

\* R::read into a buffer of len bytes: it may return any number of bytes from
\* 1 to what is left and fits, and 0 at the end of its input.
ReadSizes(read, len) ==
    IF read.left = 0 \/ len = 0 THEN {0} ELSE 1..Min(read.left, len)

\* Inner::read (26-33): the read of the reader in the slot, taken to be
\* initialized.  uninit tells that the slot was not: the read of such a slot
\* is undefined, and stands here as a read of nothing.
Inner_read(self, len) ==
    {[inner |-> [self EXCEPT !.done = @ + k, !.left = @ - k],
      bytes |-> [i \in 1..k |-> [reader |-> self.id, index |-> self.done + i]],
      uninit |-> self = Uninit] : k \in ReadSizes(self, len)}

\* Line 13: an empty buffer over the uninitialized slot.  buf holds the
\* filled bytes of the buffer and pos is the position of the next one.
BufReader_with_capacity == [inner |-> Uninit, buf |-> <<>>, pos |-> 0]

\* The bytes that are buffered and not consumed.
buffer(self) == SubSeq(self.buf, self.pos + 1, Len(self.buf))

\* BufReader::fill_buf: the inner reader is asked only when the buffer has
\* nothing left, and the unconsumed part of the buffer is returned.
BufReader_fill_buf(self) ==
    IF self.pos >= Len(self.buf)
    THEN {[reader |-> [inner |-> r.inner, buf |-> r.bytes, pos |-> 0],
           out |-> r.bytes,
           uninit |-> r.uninit] : r \in Inner_read(self.inner, Capacity)}
    ELSE {[reader |-> self, out |-> buffer(self), uninit |-> FALSE]}

\* BufReader::consume.
BufReader_consume(self, amt) == [self EXCEPT !.pos = Min(@ + amt, Len(self.buf))]

\* BufReader::read into a buffer of len bytes: with nothing buffered and a
\* request of at least the capacity the buffer is bypassed; otherwise the
\* bytes come from fill_buf and are consumed.
BufReader_read(self, len) ==
    IF self.pos = Len(self.buf) /\ len >= Capacity
    THEN {[reader |-> [inner |-> r.inner, buf |-> <<>>, pos |-> 0],
           out |-> r.bytes,
           uninit |-> r.uninit] : r \in Inner_read(self.inner, len)}
    ELSE {LET nread == Min(Len(f.out), len)
          IN [reader |-> BufReader_consume(f.reader, nread),
              out |-> SubSeq(f.out, 1, nread),
              uninit |-> f.uninit] : f \in BufReader_fill_buf(self)}

\* ReusableBufRead::lease (17-22): ptr::write puts read into the slot and
\* drops nothing; the buffer is left as it is.
lease(self, read) == [self EXCEPT !.inner = read]

\* A drop of the Lease that leaves the reader in the slot.
Lease_drop_forgets(self) == [reader |-> self, dropped |-> <<>>]

\* Drop for Lease (56-60): drop_in_place of the reader in the slot; the
\* buffer is left as it is.
Lease_drop(self) ==
    [reader |-> [self EXCEPT !.inner = Uninit], dropped |-> <<self.inner.id>>]

\* rb.lease(read) for a reader of n bytes.  The Lease borrows the
\* ReusableBufRead mutably for 'a (17, 35), so the call compiles only where
\* no Lease made earlier is alive.
BufLease(n) ==
    /\ leases = {}
    /\ nleases < MaxLeases
    /\ LET read == [id |-> nleases + 1, done |-> 0, left |-> n]
       IN /\ reader' = lease(reader, read)
          /\ overwritten' = IF reader.inner = Uninit THEN overwritten
                            ELSE overwritten \cup {reader.inner.id}
          /\ leases' = leases \cup {read.id}
    /\ nleases' = nleases + 1
    /\ UNCHANGED <<lease_out, dropped, read_uninit,
                   collVars, mainVars, usedVars, trieVars, internVars, allocVars>>

\* Read for Lease (37-42), into a buffer of len bytes.
LeaseRead(l, len) ==
    /\ l \in leases
    /\ \E r \in BufReader_read(reader, len) :
          /\ reader' = r.reader
          /\ lease_out' = lease_out \cup {<<l, r.out[i]>> : i \in DOMAIN r.out}
          /\ read_uninit' = (read_uninit \/ r.uninit)
    /\ UNCHANGED <<leases, nleases, dropped, overwritten,
                   collVars, mainVars, usedVars, trieVars, internVars, allocVars>>

\* BufRead::fill_buf for Lease (46-48).
LeaseFillBuf(l) ==
    /\ l \in leases
    /\ \E r \in BufReader_fill_buf(reader) :
          /\ reader' = r.reader
          /\ lease_out' = lease_out \cup {<<l, r.out[i]>> : i \in DOMAIN r.out}
          /\ read_uninit' = (read_uninit \/ r.uninit)
    /\ UNCHANGED <<leases, nleases, dropped, overwritten,
                   collVars, mainVars, usedVars, trieVars, internVars, allocVars>>

\* BufRead::consume for Lease (51-53).
LeaseConsume(l, amt) ==
    /\ l \in leases
    /\ reader' = BufReader_consume(reader, amt)
    /\ UNCHANGED <<leases, nleases, lease_out, dropped, overwritten, read_uninit,
                   collVars, mainVars, usedVars, trieVars, internVars, allocVars>>

\* The Lease goes out of scope (56-60).
LeaseDrop(l) ==
    /\ l \in leases
    /\ LET d == Lease_drop(reader)
       IN /\ reader' = d.reader
          /\ dropped' = dropped \o d.dropped
    /\ leases' = leases \ {l}
    /\ UNCHANGED <<nleases, lease_out, overwritten, read_uninit,
                   collVars, mainVars, usedVars, trieVars, internVars, allocVars>>

BufReadNext ==
    \/ \E n \in 0..MaxBytes : BufLease(n)
    \/ \E l \in LeaseId, len \in 1..(Capacity + 1) : LeaseRead(l, len)
    \/ \E l \in LeaseId : LeaseFillBuf(l)
    \/ \E l \in LeaseId, amt \in 1..Capacity : LeaseConsume(l, amt)
    \/ \E l \in LeaseId : LeaseDrop(l)

\* ---------------------------------------------------------------- alloc.rs

\* Number of on_alloc and on_dealloc callbacks.
MaxCallbacks == 2

\* enum Allocation (41-45), in the order of its variants, which is the order
\* of the keys of the BTreeMap.
AllocationOrder == <<"None", "Link", "Document">>
Allocation == {AllocationOrder[i] : i \in DOMAIN AllocationOrder}

\* The sizes of the allocations.
AllocSize == {1, 2}

\* Stat::default (5-10).
Stat_default == [current |-> 0, peak |-> 0, total |-> 0]

\* Stat::record without the second update of peak (lines 26-28).
record_peak_before_only(self, size) ==
    LET before == IF self.current > self.peak
                  THEN [self EXCEPT !.peak = self.current] ELSE self
        added == [before EXCEPT !.current = @ + size]
    IN IF size > 0 THEN [added EXCEPT !.total = @ + size] ELSE added

\* Stat::record (19-33).
record(self, size) ==
    LET before == IF self.current > self.peak
                  THEN [self EXCEPT !.peak = self.current] ELSE self
        added == [before EXCEPT !.current = @ + size]
        after == IF added.current > added.peak
                 THEN [added EXCEPT !.peak = added.current] ELSE added
    IN IF size > 0 THEN [after EXCEPT !.total = @ + size] ELSE after

\* map.entry(*self).or_insert_with(Default::default).record(size) (50, 56).
entry_record(map, usecase, size) ==
    MapPut(map, usecase,
           record(IF usecase \in DOMAIN map THEN map[usecase] ELSE Stat_default, size))

\* No callback.
NoCallback == [usecase |-> "None", size |-> 0]

\* The try_lock of lines 49 and 55 for a callback of the given signed size:
\* with the Mutex free the thread takes it and goes on to record; with the
\* Mutex held try_lock returns Err and the callback returns.
try_lock(t, usecase, size) ==
    IF results_mutex = 0
    THEN /\ results_mutex' = t
         /\ alloc_pc' = [alloc_pc EXCEPT ![t] = "record"]
         /\ alloc_arg' = [alloc_arg EXCEPT ![t] = [usecase |-> usecase, size |-> size]]
    ELSE UNCHANGED <<results_mutex, alloc_pc, alloc_arg>>

\* Allocation::on_alloc (48-49), called by the allocator on thread t.
OnAlloc(t, usecase, size) ==
    /\ alloc_pc[t] = "idle"
    /\ ncallbacks < MaxCallbacks
    /\ ncallbacks' = ncallbacks + 1
    /\ allocated' = [allocated EXCEPT ![usecase] = @ + size]
    /\ try_lock(t, usecase, size)
    /\ UNCHANGED <<RESULTS, deallocated, alloc_stdout, stat, stat_sizes,
                   collVars, mainVars, usedVars, trieVars, internVars, bufVars>>

\* Allocation::on_dealloc (54-55), called by the allocator on thread t.
OnDealloc(t, usecase, size) ==
    /\ alloc_pc[t] = "idle"
    /\ ncallbacks < MaxCallbacks
    /\ ncallbacks' = ncallbacks + 1
    /\ deallocated' = [deallocated EXCEPT ![usecase] = @ + size]
    /\ try_lock(t, usecase, 0 - size)
    /\ UNCHANGED <<RESULTS, allocated, alloc_stdout, stat, stat_sizes,
                   collVars, mainVars, usedVars, trieVars, internVars, bufVars>>

\* Lines 50-51 and 56-57: the entry is recorded and the MutexGuard dropped.
AllocRecord(t) ==
    /\ alloc_pc[t] = "record"
    /\ RESULTS' = entry_record(RESULTS, alloc_arg[t].usecase, alloc_arg[t].size)
    /\ results_mutex' = 0
    /\ alloc_pc' = [alloc_pc EXCEPT ![t] = "idle"]
    /\ alloc_arg' = [alloc_arg EXCEPT ![t] = NoCallback]
    /\ UNCHANGED <<allocated, deallocated, ncallbacks, alloc_stdout, stat, stat_sizes,
                   collVars, mainVars, usedVars, trieVars, internVars, bufVars>>

\* print_alloc_stats, line 73: the heading.  One call is made in a run.
PrintCall(t) ==
    /\ alloc_pc[t] = "idle"
    /\ alloc_stdout = <<>>
    /\ alloc_stdout' = <<"allocation stats:">>
    /\ alloc_pc' = [alloc_pc EXCEPT ![t] = "lock"]
    /\ UNCHANGED <<RESULTS, results_mutex, alloc_arg, allocated, deallocated, ncallbacks,
                   stat, stat_sizes,
                   collVars, mainVars, usedVars, trieVars, internVars, bufVars>>

\* print_alloc_stats, line 74: RESULTS.lock() returns when the Mutex is free.
PrintLock(t) ==
    /\ alloc_pc[t] = "lock"
    /\ results_mutex = 0
    /\ results_mutex' = t
    /\ alloc_pc' = [alloc_pc EXCEPT ![t] = "print"]
    /\ UNCHANGED <<RESULTS, alloc_arg, allocated, deallocated, ncallbacks,
                   alloc_stdout, stat, stat_sizes,
                   collVars, mainVars, usedVars, trieVars, internVars, bufVars>>

\* The entries of the map in the order of their keys.
RECURSIVE stat_lines(_, _)
stat_lines(map, i) ==
    IF i > Len(AllocationOrder) THEN <<>>
    ELSE (IF AllocationOrder[i] \in DOMAIN map
          THEN <<[usecase |-> AllocationOrder[i], size |-> map[AllocationOrder[i]]]>>
          ELSE <<>>) \o stat_lines(map, i + 1)

\* print_alloc_stats, lines 75-78: one line per entry, then the guard is
\* dropped.
PrintStats(t) ==
    /\ alloc_pc[t] = "print"
    /\ alloc_stdout' = alloc_stdout \o stat_lines(RESULTS, 1)
    /\ results_mutex' = 0
    /\ alloc_pc' = [alloc_pc EXCEPT ![t] = "idle"]
    /\ UNCHANGED <<RESULTS, alloc_arg, allocated, deallocated, ncallbacks, stat, stat_sizes,
                   collVars, mainVars, usedVars, trieVars, internVars, bufVars>>

\* Number of Stat::record calls on the one Stat, and the sizes they record.
MaxRecords == 4
StatSize == {-2, -1, 0, 1, 2}

\* stat.record(size).
StatRecord(size) ==
    /\ Len(stat_sizes) < MaxRecords
    /\ stat' = record(stat, size)
    /\ stat_sizes' = Append(stat_sizes, size)
    /\ UNCHANGED <<RESULTS, results_mutex, alloc_pc, alloc_arg, allocated, deallocated,
                   ncallbacks, alloc_stdout,
                   collVars, mainVars, usedVars, trieVars, internVars, bufVars>>

StatNext == \E size \in StatSize : StatRecord(size)

AllocNext ==
    \/ \E t \in Thread, usecase \in Allocation, size \in AllocSize : OnAlloc(t, usecase, size)
    \/ \E t \in Thread, usecase \in Allocation, size \in AllocSize : OnDealloc(t, usecase, size)
    \/ \E t \in Thread : AllocRecord(t)
    \/ \E t \in Thread : PrintCall(t)
    \/ \E t \in Thread : PrintLock(t)
    \/ \E t \in Thread : PrintStats(t)

\* ---------------------------------------------------------- specifications

\* The collector API driven by arbitrary workers; main is not running.
InitCollector ==
    /\ colls = [c \in Coll |-> NewCollector(c)]
    /\ live = Coll
    /\ hist = [c \in Coll |-> NoEvents]
    /\ merged_events = [c \in Coll |-> 0]
    /\ nevents = 0
    /\ check_anchors = FALSE
    /\ sources_path = FALSE
    /\ MainStart("idle")
    /\ used_colls = [c \in Coll |-> UsedLinkCollector_new]
    /\ used_live = Coll
    /\ used_hist = [c \in Coll |-> <<>>]
    /\ trie = Trie_new
    /\ trie_last = [k \in TrieKey |-> None]
    /\ ninserts = 0
    /\ trie_iter = <<>>
    /\ trie_items = <<>>
    /\ exhausted = FALSE
    /\ interner_arena = <<>>
    /\ interner_map = {}
    /\ interner_mutex = 0
    /\ intern_pc = [t \in Thread |-> "idle"]
    /\ intern_s = [t \in Thread |-> <<>>]
    /\ intern_rv = [t \in Thread |-> None]
    /\ intern_returned = {}
    /\ ncalls = 0
    /\ reader = BufReader_with_capacity
    /\ leases = {}
    /\ nleases = 0
    /\ lease_out = {}
    /\ dropped = <<>>
    /\ overwritten = {}
    /\ read_uninit = FALSE
    /\ RESULTS = EmptyMap
    /\ results_mutex = 0
    /\ alloc_pc = [t \in Thread |-> "idle"]
    /\ alloc_arg = [t \in Thread |-> NoCallback]
    /\ allocated = [u \in Allocation |-> 0]
    /\ deallocated = [u \in Allocation |-> 0]
    /\ ncallbacks = 0
    /\ alloc_stdout = <<>>
    /\ stat = Stat_default
    /\ stat_sizes = <<>>

SpecCollector == InitCollector /\ [][CollNext]_vars

\* The UsedLinkCollector API driven by arbitrary workers.
InitUsedLinks ==
    /\ used_colls = [c \in Coll |-> UsedLinkCollector_new]
    /\ used_live = Coll
    /\ used_hist = [c \in Coll |-> <<>>]
    /\ trie = Trie_new
    /\ trie_last = [k \in TrieKey |-> None]
    /\ ninserts = 0
    /\ trie_iter = <<>>
    /\ trie_items = <<>>
    /\ exhausted = FALSE
    /\ interner_arena = <<>>
    /\ interner_map = {}
    /\ interner_mutex = 0
    /\ intern_pc = [t \in Thread |-> "idle"]
    /\ intern_s = [t \in Thread |-> <<>>]
    /\ intern_rv = [t \in Thread |-> None]
    /\ intern_returned = {}
    /\ ncalls = 0
    /\ colls = [c \in Coll |-> NewCollector(c)]
    /\ live = Coll
    /\ hist = [c \in Coll |-> NoEvents]
    /\ merged_events = [c \in Coll |-> 0]
    /\ nevents = 0
    /\ check_anchors = FALSE
    /\ sources_path = FALSE
    /\ MainStart("idle")
    /\ reader = BufReader_with_capacity
    /\ leases = {}
    /\ nleases = 0
    /\ lease_out = {}
    /\ dropped = <<>>
    /\ overwritten = {}
    /\ read_uninit = FALSE
    /\ RESULTS = EmptyMap
    /\ results_mutex = 0
    /\ alloc_pc = [t \in Thread |-> "idle"]
    /\ alloc_arg = [t \in Thread |-> NoCallback]
    /\ allocated = [u \in Allocation |-> 0]
    /\ deallocated = [u \in Allocation |-> 0]
    /\ ncallbacks = 0
    /\ alloc_stdout = <<>>
    /\ stat = Stat_default
    /\ stat_sizes = <<>>

SpecUsedLinks == InitUsedLinks /\ [][UsedNext]_vars

\* A Trie that is filled and then iterated.
InitTrie ==
    /\ trie = Trie_new
    /\ trie_last = [k \in TrieKey |-> None]
    /\ ninserts = 0
    /\ trie_iter = <<>>
    /\ trie_items = <<>>
    /\ exhausted = FALSE
    /\ interner_arena = <<>>
    /\ interner_map = {}
    /\ interner_mutex = 0
    /\ intern_pc = [t \in Thread |-> "idle"]
    /\ intern_s = [t \in Thread |-> <<>>]
    /\ intern_rv = [t \in Thread |-> None]
    /\ intern_returned = {}
    /\ ncalls = 0
    /\ used_colls = [c \in Coll |-> UsedLinkCollector_new]
    /\ used_live = Coll
    /\ used_hist = [c \in Coll |-> <<>>]
    /\ colls = [c \in Coll |-> NewCollector(c)]
    /\ live = Coll
    /\ hist = [c \in Coll |-> NoEvents]
    /\ merged_events = [c \in Coll |-> 0]
    /\ nevents = 0
    /\ check_anchors = FALSE
    /\ sources_path = FALSE
    /\ MainStart("idle")
    /\ reader = BufReader_with_capacity
    /\ leases = {}
    /\ nleases = 0
    /\ lease_out = {}
    /\ dropped = <<>>
    /\ overwritten = {}
    /\ read_uninit = FALSE
    /\ RESULTS = EmptyMap
    /\ results_mutex = 0
    /\ alloc_pc = [t \in Thread |-> "idle"]
    /\ alloc_arg = [t \in Thread |-> NoCallback]
    /\ allocated = [u \in Allocation |-> 0]
    /\ deallocated = [u \in Allocation |-> 0]
    /\ ncallbacks = 0
    /\ alloc_stdout = <<>>
    /\ stat = Stat_default
    /\ stat_sizes = <<>>

SpecTrie == InitTrie /\ [][TrieNext]_vars

\* One StringInterner shared by the threads.
InitInterner ==
    /\ interner_arena = <<>>
    /\ interner_map = {}
    /\ interner_mutex = 0
    /\ intern_pc = [t \in Thread |-> "idle"]
    /\ intern_s = [t \in Thread |-> <<>>]
    /\ intern_rv = [t \in Thread |-> None]
    /\ intern_returned = {}
    /\ ncalls = 0
    /\ trie = Trie_new
    /\ trie_last = [k \in TrieKey |-> None]
    /\ ninserts = 0
    /\ trie_iter = <<>>
    /\ trie_items = <<>>
    /\ exhausted = FALSE
    /\ used_colls = [c \in Coll |-> UsedLinkCollector_new]
    /\ used_live = Coll
    /\ used_hist = [c \in Coll |-> <<>>]
    /\ colls = [c \in Coll |-> NewCollector(c)]
    /\ live = Coll
    /\ hist = [c \in Coll |-> NoEvents]
    /\ merged_events = [c \in Coll |-> 0]
    /\ nevents = 0
    /\ check_anchors = FALSE
    /\ sources_path = FALSE
    /\ MainStart("idle")
    /\ reader = BufReader_with_capacity
    /\ leases = {}
    /\ nleases = 0
    /\ lease_out = {}
    /\ dropped = <<>>
    /\ overwritten = {}
    /\ read_uninit = FALSE
    /\ RESULTS = EmptyMap
    /\ results_mutex = 0
    /\ alloc_pc = [t \in Thread |-> "idle"]
    /\ alloc_arg = [t \in Thread |-> NoCallback]
    /\ allocated = [u \in Allocation |-> 0]
    /\ deallocated = [u \in Allocation |-> 0]
    /\ ncallbacks = 0
    /\ alloc_stdout = <<>>
    /\ stat = Stat_default
    /\ stat_sizes = <<>>

SpecInterner == InitInterner /\ [][InternNext]_vars

\* One ReusableBufRead and the Leases made of it.
InitBufRead ==
    /\ interner_arena = <<>>
    /\ interner_map = {}
    /\ interner_mutex = 0
    /\ intern_pc = [t \in Thread |-> "idle"]
    /\ intern_s = [t \in Thread |-> <<>>]
    /\ intern_rv = [t \in Thread |-> None]
    /\ intern_returned = {}
    /\ ncalls = 0
    /\ trie = Trie_new
    /\ trie_last = [k \in TrieKey |-> None]
    /\ ninserts = 0
    /\ trie_iter = <<>>
    /\ trie_items = <<>>
    /\ exhausted = FALSE
    /\ used_colls = [c \in Coll |-> UsedLinkCollector_new]
    /\ used_live = Coll
    /\ used_hist = [c \in Coll |-> <<>>]
    /\ colls = [c \in Coll |-> NewCollector(c)]
    /\ live = Coll
    /\ hist = [c \in Coll |-> NoEvents]
    /\ merged_events = [c \in Coll |-> 0]
    /\ nevents = 0
    /\ check_anchors = FALSE
    /\ sources_path = FALSE
    /\ MainStart("idle")
    /\ reader = BufReader_with_capacity
    /\ leases = {}
    /\ nleases = 0
    /\ lease_out = {}
    /\ dropped = <<>>
    /\ overwritten = {}
    /\ read_uninit = FALSE
    /\ RESULTS = EmptyMap
    /\ results_mutex = 0
    /\ alloc_pc = [t \in Thread |-> "idle"]
    /\ alloc_arg = [t \in Thread |-> NoCallback]
    /\ allocated = [u \in Allocation |-> 0]
    /\ deallocated = [u \in Allocation |-> 0]
    /\ ncallbacks = 0
    /\ alloc_stdout = <<>>
    /\ stat = Stat_default
    /\ stat_sizes = <<>>

SpecBufRead == InitBufRead /\ [][BufReadNext]_vars

\* The allocator's callbacks and print_alloc_stats on the threads.
InitAlloc ==
    /\ interner_arena = <<>>
    /\ interner_map = {}
    /\ interner_mutex = 0
    /\ intern_pc = [t \in Thread |-> "idle"]
    /\ intern_s = [t \in Thread |-> <<>>]
    /\ intern_rv = [t \in Thread |-> None]
    /\ intern_returned = {}
    /\ ncalls = 0
    /\ trie = Trie_new
    /\ trie_last = [k \in TrieKey |-> None]
    /\ ninserts = 0
    /\ trie_iter = <<>>
    /\ trie_items = <<>>
    /\ exhausted = FALSE
    /\ used_colls = [c \in Coll |-> UsedLinkCollector_new]
    /\ used_live = Coll
    /\ used_hist = [c \in Coll |-> <<>>]
    /\ colls = [c \in Coll |-> NewCollector(c)]
    /\ live = Coll
    /\ hist = [c \in Coll |-> NoEvents]
    /\ merged_events = [c \in Coll |-> 0]
    /\ nevents = 0
    /\ check_anchors = FALSE
    /\ sources_path = FALSE
    /\ MainStart("idle")
    /\ reader = BufReader_with_capacity
    /\ leases = {}
    /\ nleases = 0
    /\ lease_out = {}
    /\ dropped = <<>>
    /\ overwritten = {}
    /\ read_uninit = FALSE
    /\ RESULTS = EmptyMap
    /\ results_mutex = 0
    /\ alloc_pc = [t \in Thread |-> "idle"]
    /\ alloc_arg = [t \in Thread |-> NoCallback]
    /\ allocated = [u \in Allocation |-> 0]
    /\ deallocated = [u \in Allocation |-> 0]
    /\ ncallbacks = 0
    /\ alloc_stdout = <<>>
    /\ stat = Stat_default
    /\ stat_sizes = <<>>

SpecAlloc == InitAlloc /\ [][AllocNext]_vars

\* One Stat, made by Default.
InitStat ==
    /\ interner_arena = <<>>
    /\ interner_map = {}
    /\ interner_mutex = 0
    /\ intern_pc = [t \in Thread |-> "idle"]
    /\ intern_s = [t \in Thread |-> <<>>]
    /\ intern_rv = [t \in Thread |-> None]
    /\ intern_returned = {}
    /\ ncalls = 0
    /\ trie = Trie_new
    /\ trie_last = [k \in TrieKey |-> None]
    /\ ninserts = 0
    /\ trie_iter = <<>>
    /\ trie_items = <<>>
    /\ exhausted = FALSE
    /\ used_colls = [c \in Coll |-> UsedLinkCollector_new]
    /\ used_live = Coll
    /\ used_hist = [c \in Coll |-> <<>>]
    /\ colls = [c \in Coll |-> NewCollector(c)]
    /\ live = Coll
    /\ hist = [c \in Coll |-> NoEvents]
    /\ merged_events = [c \in Coll |-> 0]
    /\ nevents = 0
    /\ check_anchors = FALSE
    /\ sources_path = FALSE
    /\ MainStart("idle")
    /\ reader = BufReader_with_capacity
    /\ leases = {}
    /\ nleases = 0
    /\ lease_out = {}
    /\ dropped = <<>>
    /\ overwritten = {}
    /\ read_uninit = FALSE
    /\ RESULTS = EmptyMap
    /\ results_mutex = 0
    /\ alloc_pc = [t \in Thread |-> "idle"]
    /\ alloc_arg = [t \in Thread |-> NoCallback]
    /\ allocated = [u \in Allocation |-> 0]
    /\ deallocated = [u \in Allocation |-> 0]
    /\ ncallbacks = 0
    /\ alloc_stdout = <<>>
    /\ stat = Stat_default
    /\ stat_sizes = <<>>

SpecStat == InitStat /\ [][StatNext]_vars

\* One run of main; no BrokenLinkCollector is in use.
InitMain ==
    /\ check_anchors \in BOOLEAN
    /\ sources_path \in BOOLEAN
    /\ MainStart("discover")
    /\ colls = [c \in Coll |-> NewCollector(c)]
    /\ live = Coll
    /\ hist = [c \in Coll |-> NoEvents]
    /\ merged_events = [c \in Coll |-> 0]
    /\ nevents = 0
    /\ used_colls = [c \in Coll |-> UsedLinkCollector_new]
    /\ used_live = Coll
    /\ used_hist = [c \in Coll |-> <<>>]
    /\ trie = Trie_new
    /\ trie_last = [k \in TrieKey |-> None]
    /\ ninserts = 0
    /\ trie_iter = <<>>
    /\ trie_items = <<>>
    /\ exhausted = FALSE
    /\ interner_arena = <<>>
    /\ interner_map = {}
    /\ interner_mutex = 0
    /\ intern_pc = [t \in Thread |-> "idle"]
    /\ intern_s = [t \in Thread |-> <<>>]
    /\ intern_rv = [t \in Thread |-> None]
    /\ intern_returned = {}
    /\ ncalls = 0
    /\ reader = BufReader_with_capacity
    /\ leases = {}
    /\ nleases = 0
    /\ lease_out = {}
    /\ dropped = <<>>
    /\ overwritten = {}
    /\ read_uninit = FALSE
    /\ RESULTS = EmptyMap
    /\ results_mutex = 0
    /\ alloc_pc = [t \in Thread |-> "idle"]
    /\ alloc_arg = [t \in Thread |-> NoCallback]
    /\ allocated = [u \in Allocation |-> 0]
    /\ deallocated = [u \in Allocation |-> 0]
    /\ ncallbacks = 0
    /\ alloc_stdout = <<>>
    /\ stat = Stat_default
    /\ stat_sizes = <<>>

SpecMain == InitMain /\ [][MainNext]_vars

\* ------------------------------------------------- claims on the collector

\* How often the uses of href h, and its defines, are in the events of c.
UsesOf(c, h) == SumOver(hist[c], {l \in Link : l.kind = "Uses" /\ l.href = h})
DefinesOf(c, h) == hist[c][Defines(h)]

\* The BrokenLinks that get_broken_links yields for href h.
BrokenOf(self, h, anchors) ==
    LET all == get_broken_links(self, anchors)
    IN {i \in DOMAIN all : all[i].href = h}

\* C1 (define dominance): in every collector, whatever was ingested and
\* merged into it, a href is Defined if and only if a Defines of it is among
\* the events of the collector, however many Uses of it there are; and
\* get_broken_links yields nothing for such a href.
C1_DefineDominance ==
    \A c \in live, h \in Href :
        /\ (colls[c].links[h].tag = "Defined") <=> (DefinesOf(c, h) > 0)
        /\ DefinesOf(c, h) > 0 =>
              \A anchors \in BOOLEAN : BrokenOf(colls[c], h, anchors) = {}

\* A collector that received events through a merge holds a href that was
\* defined and used at least twice.
C1_Witness ==
    \E c \in live, h \in Href :
        /\ merged_events[c] > 0
        /\ DefinesOf(c, h) > 0 /\ UsesOf(c, h) >= 2
        /\ colls[c].links[h].tag = "Defined"

\* The index as it is observed: per href the state and, for Undefined, how
\* often each witness is in the list (the order of the list is left out).
StateView(state) ==
    IF state.tag = "Undefined"
    THEN [tag |-> "Undefined",
          count |-> [w \in Witness \cup {Garbage} |->
                        Cardinality({i \in DOMAIN state.vec : state.vec[i] = w})]]
    ELSE [tag |-> state.tag]
IndexView(self) == [h \in Href |-> StateView(self.links[h])]

\* One collector ingesting the events of a multiset, in a fixed order.
RECURSIVE IngestAll(_, _)
IngestAll(self, bag) ==
    IF \A l \in Link : bag[l] = 0 THEN self
    ELSE LET l == CHOOSE l \in Link : bag[l] > 0
         IN IngestAll(ingest(self, l, FALSE), [bag EXCEPT ![l] = @ - 1])

\* C2 (monoid of states): the state of every href in a collector is the one
\* a single collector reaches by ingesting the same events in a fixed order:
\* it depends neither on the order of the events nor on how they were
\* spread over the collectors that were merged.
C2_OrderAndPartitionIndependent ==
    \A c \in live :
        IndexView(colls[c]) = IndexView(IngestAll(NewCollector(c), hist[c]))

\* C3 (merge is commutative and associative): merging two collectors either
\* way round, and three collectors in either grouping, yields the same index.
C3_MergeCommutativeAssociative ==
    /\ \A a \in live, b \in live, s1 \in BOOLEAN, s2 \in BOOLEAN :
          a # b =>
            IndexView(merge(colls[a], colls[b], s1))
              = IndexView(merge(colls[b], colls[a], s2))
    /\ \A a \in live, b \in live, c \in live, s1 \in BOOLEAN, s2 \in BOOLEAN :
          (a # b /\ a # c /\ b # c) =>
            IndexView(merge(merge(colls[a], colls[b], s1), colls[c], s2))
              = IndexView(merge(colls[a], merge(colls[b], colls[c], s1), s2))

\* C4 (no loss of used count): used_links_count of every collector is the
\* number of Uses among the events ingested by it and by the collectors
\* merged into it; Defines add nothing.
C4_UsedCount ==
    \A c \in live :
        used_links_count(colls[c])
          = SumOver(hist[c], {l \in Link : l.kind = "Uses"})

\* A collector that received events through a merge counts two uses of a
\* href that is Defined, next to a Defines.
C4_Witness ==
    \E c \in live, h \in Href :
        /\ merged_events[c] > 0
        /\ colls[c].links[h].tag = "Defined"
        /\ UsesOf(c, h) >= 2
        /\ used_links_count(colls[c]) >= 2

\* C5 (witness conservation): for a href with no Defines, get_broken_links
\* yields one BrokenLink per Uses of it, each with that use's path and
\* paragraph; for a href with a Defines it yields none.
C5_WitnessConservation ==
    \A c \in live, h \in Href, anchors \in BOOLEAN :
        LET all == get_broken_links(colls[c], anchors)
            yielded(w) == Cardinality({i \in BrokenOf(colls[c], h, anchors) :
                                          /\ all[i].path = w.path
                                          /\ all[i].paragraph = w.paragraph})
        IN IF DefinesOf(c, h) > 0
           THEN BrokenOf(colls[c], h, anchors) = {}
           ELSE /\ \A w \in Witness :
                      yielded(w) = hist[c][Uses(h, w.path, w.paragraph)]
                /\ yielded(Garbage) = 0

\* ----------------------------------------------------- claims on the driver

\* The hrefs the driver finds broken, and what the report lists them as.
Broken(h) == used_links[h] # <<>> /\ ~(h \in defined_links)
InSeq(x, q) == \E i \in DOMAIN q : q[i] = x
ListedHard(h) == \E f \in AllPath : InSeq(h, bad_links_and_anchors[f].bad_links)
ListedSoft(h) == \E f \in AllPath : InSeq(h, bad_links_and_anchors[f].bad_anchors)

\* The BrokenLinkCollector of the same run: one collector per document
\* ingests the links extracted from it, the collectors are merged in order,
\* and the merged collector ingests a Defines for every file href.
RECURSIVE IngestSeq(_, _)
IngestSeq(self, links) ==
    IF links = <<>> THEN self
    ELSE IngestSeq(ingest(self, Head(links), FALSE), Tail(links))
RECURSIVE MergeShards(_, _, _)
MergeShards(self, i, scribbled) ==
    IF i > Len(extracted) THEN self
    ELSE MergeShards(merge(self, IngestSeq(NewCollector(i), extracted[i].links),
                           scribbled),
                     i + 1, scribbled)
RECURSIVE IngestDefines(_, _)
IngestDefines(self, hrefs) ==
    IF hrefs = {} THEN self
    ELSE LET h == CHOOSE h \in hrefs : TRUE
         IN IngestDefines(ingest(self, Defines(h), FALSE), hrefs \ {h})
RunCollector(scribbled) ==
    IngestDefines(MergeShards(NewCollector(0), 1, scribbled), file_hrefs)

\* The hrefs that are Defined in the index of that collector (the state of a
\* href does not depend on what freed memory holds).
RunDefined == {h \in MainHref : RunCollector(FALSE).links[h].tag = "Defined"}
SeqRange(q) == {q[i] : i \in DOMAIN q}

\* C6 (anchor classification): with check_anchors a broken href is soft if
\* and only if stripping its anchor changes it and the stripped href is
\* defined, and hard otherwise; without check_anchors every broken href is
\* hard.  Both for the driver's report and for get_broken_links.
C6_AnchorClassification ==
    pc = "done" =>
        /\ \A h \in MainHref :
              LET soft == /\ check_anchors
                          /\ without_anchor(h) # h
                          /\ without_anchor(h) \in defined_links
              IN Broken(h) => /\ ListedSoft(h) <=> soft
                              /\ ListedHard(h) <=> ~soft
        /\ LET defined == RunDefined
           IN \A scribbled \in BOOLEAN :
                 \A link \in SeqRange(get_broken_links(RunCollector(scribbled),
                                                       check_anchors)) :
                     link.hard_404 =
                         ~(/\ check_anchors
                           /\ without_anchor(link.href) # link.href
                           /\ without_anchor(link.href) \in defined)

\* A finished run with check_anchors that found a bad anchor and a bad link.
C6_Witness ==
    /\ pc = "done" /\ check_anchors
    /\ \E h \in MainHref : Broken(h) /\ ListedSoft(h) /\ without_anchor(h) # h
    /\ \E h \in MainHref : Broken(h) /\ ListedHard(h)
    /\ \E link \in SeqRange(get_broken_links(RunCollector(TRUE), TRUE)) :
          ~link.hard_404

\* The defect lines of the report.
DefectLines == {i \in DOMAIN stdout :
                  stdout[i].line \in {"error: bad link", "warning: bad anchor"}}

\* C7 (exit code ladder): a run that finishes classification exits with 1
\* iff some broken href is hard; otherwise with 2 iff some broken href is
\* soft and check_anchors is set; otherwise with 0.  Exit code 2 needs
\* check_anchors, and exit code 0 means no defect line was printed.
C7_ExitCodeLadder ==
    pc = "done" =>
        LET hard == \E h \in MainHref : Broken(h) /\ ListedHard(h)
            soft == \E h \in MainHref : Broken(h) /\ ListedSoft(h)
        IN /\ exit_code = 1 <=> hard
           /\ exit_code = 2 <=> (~hard /\ soft /\ check_anchors)
           /\ exit_code = 0 <=> (~hard /\ ~(soft /\ check_anchors))
           /\ exit_code = 2 => check_anchors
           /\ exit_code = 0 => DefectLines = {}

\* A finished run that found both a bad link and a bad anchor.
C7_Witness ==
    /\ pc = "done" /\ exit_code = 1
    /\ \E h \in MainHref : Broken(h) /\ ListedHard(h)
    /\ \E h \in MainHref : Broken(h) /\ ListedSoft(h)

\* How often x is in the sequence q.
Occurrences(x, q) == Cardinality({i \in DOMAIN q : q[i] = x})

\* C8 (paragraph attribution): a witness whose paragraph fingerprint is a key
\* of the paragraph map is recorded against every source file listed under
\* the fingerprint and not against its HTML path; any other witness is
\* recorded against its HTML path only.  So for every file f and broken href
\* h, h is recorded against f once per witness routed to f.
C8_ParagraphAttribution ==
    pc = "done" =>
        \A f \in AllPath, h \in MainHref :
            LET recorded == Occurrences(h, bad_links_and_anchors[f].bad_links)
                              + Occurrences(h, bad_links_and_anchors[f].bad_anchors)
                links == IF Broken(h) THEN used_links[h] ELSE <<>>
                mapped(l) == l.paragraph # 0
                               /\ paragraps_to_sourcefile[l.paragraph] # <<>>
                RECURSIVE routed(_)
                routed(i) ==
                    IF i > Len(links) THEN 0
                    ELSE (IF mapped(links[i])
                          THEN Occurrences(f, paragraps_to_sourcefile[links[i].paragraph])
                          ELSE IF f = links[i].path THEN 1 ELSE 0)
                         + routed(i + 1)
            IN recorded = routed(1)

\* A finished run in which a broken use carries a fingerprint that two
\* source files share, and another broken use carries none.
C8_Witness ==
    /\ pc = "done"
    /\ Len(paragraps_to_sourcefile[1]) = 2
    /\ \E h \in MainHref :
          /\ Broken(h)
          /\ \E i \in DOMAIN used_links[h] : used_links[h][i].paragraph = 1
          /\ \A j \in DOMAIN SourcePath :
                Occurrences(h, bad_links_and_anchors[SourcePath[j]].bad_links) > 0
    /\ \E h \in MainHref :
          /\ Broken(h)
          /\ \E i \in DOMAIN used_links[h] : used_links[h][i].paragraph = 0

\* The hrefs the extractor emitted a Defines or a Uses for.
ExtractedOf(kind) ==
    {extracted[i].links[j].href : <<i, j>> \in
        {<<i, j>> \in (DOMAIN extracted) \X (1..MaxLinks) :
            j <= Len(extracted[i].links) /\ extracted[i].links[j].kind = kind}}

\* C9 (pre-seeded defines): before classification every href of a regular
\* file found in discovery is in the defined set, so no use of such a href is
\* reported, as a bad link or as a bad anchor.
C9_PreSeededDefines ==
    /\ pc \in {"sources", "failed: source", "done"} => file_hrefs \subseteq defined_links
    /\ pc = "done" =>
          \A h \in file_hrefs :
              /\ ~ListedHard(h) /\ ~ListedSoft(h)
              /\ \A i \in DefectLines : stdout[i].href # h

\* A finished run in which the href of a file that is not an HTML document
\* is used and no Defines was extracted for it.
C9_Witness ==
    /\ pc = "done"
    /\ \E h \in file_hrefs :
          /\ used_links[h] # <<>>
          /\ ~(h \in ExtractedOf("Defines"))
          /\ \A i \in DOMAIN documents : documents[i].href # h

\* The walk met a symlink, or a file whose href an earlier file has.
MetSymlink == \E i \in DOMAIN walk : walk[i].kind = "symlink"
MetSameHref ==
    \E i \in DOMAIN walk, j \in DOMAIN walk :
        /\ i < j
        /\ walk[i].kind = "file" /\ walk[j].kind = "file"
        /\ walk[i].href = walk[j].href

\* C10 (discovery fails fast): when the walk meets a symlink or a second file
\* with a href already seen, the run has aborted in discovery with a non-zero
\* exit code, no document was handed to the extractor and nothing of the
\* report or the summary is printed.
C10_DiscoveryFailsFast ==
    (MetSymlink \/ MetSameHref) =>
        /\ pc \in {"failed: symlink", "failed: two files with one href"}
        /\ exit_code > 0
        /\ extracted = <<>> /\ nfolded = 0
        /\ stdout = <<>>

\* Discovery aborted on a second file with the href of an HTML document
\* found before it.
C10_Witness ==
    /\ MetSameHref
    /\ documents # <<>>
    /\ pc = "failed: two files with one href"

\* C11 (extraction errors are fatal): when the extractor returns an error for
\* an HTML document or a Markdown source, whatever was folded before, main
\* stops with an Err that names that file; no defect line and no summary line
\* is printed, nothing is counted, and the exit code is the one of the Err,
\* not one computed from the counts.
C11_ExtractionErrorsFatal ==
    /\ error # NoError <=> pc \in {"failed: extraction", "failed: source"}
    /\ pc = "failed: extraction" =>
          /\ error.context = "Failed to read file"
          /\ \E i \in (nfolded + 1)..Len(documents) : error.path = documents[i].path
    /\ pc = "failed: source" =>
          /\ error.context = "Failed to read file"
          /\ InSeq(error.path, SourcePath)
    /\ pc \in {"failed: extraction", "failed: source"} =>
          /\ stdout = <<>>
          /\ bad_links_and_anchors = NoDefects
          /\ bad_links_count = 0 /\ bad_anchors_count = 0
          /\ used_links_len = 0
          /\ exit_code = 1

\* The extraction of the second document failed after the fold of the first
\* had collected a use of a href that no file has.
C11_Witness ==
    /\ pc = "failed: extraction"
    /\ nfolded = 1 /\ Len(documents) = 2
    /\ error = failed_to_read(documents[2].path)
    /\ \E h \in MainHref : parts[1].used_links[h] # <<>> /\ ~(h \in file_hrefs)

\* The report: the lines of stdout before the summary.
ReportLines == {i \in DOMAIN stdout :
                  stdout[i].line \in {"file", "error: bad link", "warning: bad anchor"}}
\* The place of a path in the order of paths.
PathIndex(f) == CHOOSE i \in DOMAIN PathOrder : PathOrder[i] = f

\* C12 (emission order): the report names the destination files in ascending
\* path order, each once and before its defect lines; under one file every
\* "error: bad link" line precedes every "warning: bad anchor" line, and in
\* each of the two groups the hrefs are in ascending byte-wise order.
C12_EmissionOrder ==
    pc = "done" =>
        \A i \in ReportLines, j \in ReportLines :
            i < j =>
              /\ PathIndex(stdout[i].file) <= PathIndex(stdout[j].file)
              /\ stdout[j].line = "file" => stdout[i].file # stdout[j].file
              /\ stdout[i].file = stdout[j].file =>
                    /\ ~(/\ stdout[i].line = "warning: bad anchor"
                         /\ stdout[j].line = "error: bad link")
                    /\ stdout[i].line = stdout[j].line =>
                          ~BytesLess(stdout[j].href, stdout[i].href)

\* A report that lists, under one file, a bad link and then a bad anchor
\* whose href is smaller than the bad link's.
C12_Witness ==
    /\ pc = "done"
    /\ \E i \in ReportLines, j \in ReportLines :
          /\ i < j
          /\ stdout[i].file = stdout[j].file
          /\ stdout[i].line = "error: bad link"
          /\ stdout[j].line = "warning: bad anchor"
          /\ BytesLess(stdout[j].href, stdout[i].href)

\* ------------------------------------------- claims on UsedLinkCollector

\* The entries a sequence of events leaves: one per Uses, in order.
RECURSIVE UsesIn(_)
UsesIn(events) ==
    IF events = <<>> THEN <<>>
    ELSE (IF Head(events).kind = "Uses"
          THEN <<[href |-> Head(events).href, path |-> Head(events).path,
                  paragraph |-> Head(events).paragraph]>>
          ELSE <<>>)
         \o UsesIn(Tail(events))

\* C13 (UsedLinkCollector keeps uses only): used_links of every collector
\* holds one entry (href, path, paragraph) per Uses among its events and none
\* for a Defines, in the order of the events: its own in ingest order, then
\* those of each collector merged into it, each in their order.
C13_UsedLinksOnly ==
    \A c \in used_live : used_colls[c].used_links = UsesIn(used_hist[c])

\* A collector that had ingested a use was merged with a collector that had
\* ingested a Defines and another use.
C13_Witness ==
    \E c \in used_live :
        /\ Len(used_hist[c]) = 3
        /\ used_hist[c][1].kind = "Uses"
        /\ used_hist[c][2].kind = "Defines"
        /\ used_hist[c][3].kind = "Uses"
        /\ used_hist[c][1] # used_hist[c][3]
        /\ used_live # Coll
        /\ Len(used_colls[c].used_links) = 2

\* ------------------------------------------------------- claims on the Trie

\* C14 (the Trie is a map): after any inserts, get and get_mut return for
\* every key the value of the last insert of that key, and None for a key
\* that was never inserted; so an insert changes the value of its key only.
C14_TrieIsMap ==
    \A k \in TrieKey :
        /\ get(trie, k) = trie_last[k]
        /\ get_mut(trie, k) = trie_last[k]

\* Three inserts of two keys, so that one was inserted twice: a key of two
\* bytes holds the last value, its prefix and the empty key are absent, and
\* the other key left the label below it.
C14_Witness ==
    /\ ninserts = 3
    /\ \E k \in TrieKey :
          /\ Len(k) = 2
          /\ trie_last[k] = 3
          /\ trie_last[<<k[1]>>] = None
          /\ trie_last[<<>>] = None
          /\ Cardinality({j \in TrieKey : trie_last[j] # None}) = 2
    /\ DOMAIN trie.lower_than # {}

\* The keys that were inserted.
Inserted == {k \in TrieKey : trie_last[k] # None}

\* C15 (iteration round-trips): the items next has returned are pairs of an
\* inserted key and the value of its last insert, no key twice; and when
\* next returns None every inserted key has been returned.  Every call of
\* next returns, so the iteration ends after one item per inserted key.
C15_IterationRoundTrips ==
    /\ \A i \in DOMAIN trie_items :
          /\ trie_items[i] # "panic"
          /\ trie_items[i][1] \in Inserted
          /\ trie_items[i][2] = trie_last[trie_items[i][1]]
          /\ \A j \in DOMAIN trie_items : trie_items[i][1] = trie_items[j][1] => i = j
    /\ exhausted => Len(trie_items) = Cardinality(Inserted)

\* An iteration that has ended after it returned the empty key, a key of one
\* byte and a key that extends that key.
C15_Witness ==
    /\ exhausted
    /\ \E i \in DOMAIN trie_items : trie_items[i][1] = <<>>
    /\ \E i \in DOMAIN trie_items, j \in DOMAIN trie_items :
          /\ Len(trie_items[i][1]) = 1 /\ Len(trie_items[j][1]) = 2
          /\ trie_items[j][1][1] = trie_items[i][1][1]
    /\ trie.label # <<>>

\* --------------------------------------------------- claims on the interner

\* C16 (interner contract): whatever the interleaving of the threads, two
\* calls that have returned hold the same handle if and only if their
\* strings are byte-wise equal; no string is copied into the arena twice;
\* and every handle returned still denotes the bytes it was returned for.
C16_InternerContract ==
    /\ \A x \in intern_returned, y \in intern_returned :
          (x.handle = y.handle) <=> (x.s = y.s)
    /\ \A i \in DOMAIN interner_arena, j \in DOMAIN interner_arena :
          interner_arena[i] = interner_arena[j] => i = j
    /\ \A x \in intern_returned :
          /\ x.handle \in DOMAIN interner_arena
          /\ interner_arena[x.handle] = x.s

\* Both threads have interned the same string and hold one handle, and a
\* call has interned another string after that one was copied.
C16_Witness ==
    /\ \E x \in intern_returned, y \in intern_returned :
          x.thread # y.thread /\ x.s = y.s /\ x.handle = y.handle
    /\ \E x \in intern_returned, y \in intern_returned :
          x.s # y.s /\ x.handle < y.handle
    /\ Len(interner_arena) = 2

\* ------------------------------------------- claims on the driver (further)

\* The accumulator of one worker that folds every document, in order.
RECURSIVE FoldAll(_, _)
FoldAll(acc, i) ==
    IF i > Len(extracted) THEN acc
    ELSE FoldAll(fold_document(acc, extracted[i].links), i + 1)
OneShard == FoldAll(Identity, 1)

\* The accumulators of parts reduced from the left.
RECURSIVE ReduceAll(_, _)
ReduceAll(acc, ps) ==
    IF ps = <<>> THEN acc ELSE ReduceAll(reduce(acc, Head(ps)), Tail(ps))

\* What main prints and returns for the accumulator of that one worker.
OneShardRun ==
    LET defined == seeded(OneShard.defined_links, file_hrefs)
        st == classify([bad |-> NoDefects, bad_links_count |-> 0, bad_anchors_count |-> 0],
                       SortedKeys({h \in MainHref : OneShard.used_links[h] # <<>>}),
                       OneShard.used_links, defined, paragraps_to_sourcefile,
                       check_anchors)
    IN [stdout |-> report(st.bad, PathOrder)
                     \o summary(used_links_len_of(OneShard.used_links), Len(documents),
                                st.bad_links_count, st.bad_anchors_count, check_anchors),
        bad_links_count |-> st.bad_links_count,
        bad_anchors_count |-> st.bad_anchors_count,
        exit_code |-> exit_status(st.bad_links_count, st.bad_anchors_count)]

\* C17 (the result does not depend on scheduling): however the documents are
\* split into accumulators and in whatever order adjacent accumulators are
\* reduced, the reduction yields what one worker folding all documents
\* yields; so the report, both counts and the exit code are those of that
\* one worker.
C17_SchedulingIndependent ==
    /\ pc = "extract" => ReduceAll(Identity, parts) = OneShard
    /\ pc \in {"sources", "failed: source", "done"} =>
          /\ used_links = OneShard.used_links
          /\ defined_links = seeded(OneShard.defined_links, file_hrefs)
    /\ pc = "done" =>
          /\ stdout = OneShardRun.stdout
          /\ bad_links_count = OneShardRun.bad_links_count
          /\ bad_anchors_count = OneShardRun.bad_anchors_count
          /\ exit_code = OneShardRun.exit_code

\* The uses of one href by two documents, which no file and no document
\* defines, are in one accumulator that two calls of the try_reduce closure
\* have made of three.
C17_Witness ==
    /\ pc = "extract"
    /\ Len(parts) = 1 /\ shards = <<2>>
    /\ \E h \in MainHref :
          /\ Len(parts[1].used_links[h]) = 2
          /\ parts[1].used_links[h][1].path # parts[1].used_links[h][2].path
          /\ ~(h \in parts[1].defined_links \cup file_hrefs)

\* ------------------------------------- claims on the collector (further)

\* The step is an ingest of link by collector c.
IngestedBy(c, link) ==
    nevents' = nevents + 1 /\ hist'[c][link] = hist[c][link] + 1

\* C18 (frame of ingest): an ingest of Uses(h) by a collector in which h is
\* Defined changes used_link_count only, by one, and leaves the index as it
\* is; and an ingest of any event for h leaves the state and the witness
\* list of every other href as they are.
C18_FrameOfIngest ==
    [][\A c \in Coll, link \in Link :
          IngestedBy(c, link) =>
            /\ (link.kind = "Uses" /\ colls[c].links[link.href].tag = "Defined") =>
                  /\ colls'[c].links = colls[c].links
                  /\ colls'[c].used_link_count = colls[c].used_link_count + 1
            /\ \A h \in MainHref \ {link.href} :
                  colls'[c].links[h] = colls[c].links[h]]_vars

\* -------------------------------------------- claims on the driver (totals)

\* The number of Uses that extraction emitted over all documents.
RECURSIVE CountUses(_)
CountUses(links) ==
    IF links = <<>> THEN 0
    ELSE (IF Head(links).kind = "Uses" THEN 1 ELSE 0) + CountUses(Tail(links))
RECURSIVE UsesExtracted(_)
UsesExtracted(i) ==
    IF i > Len(extracted) THEN 0
    ELSE CountUses(extracted[i].links) + UsesExtracted(i + 1)

\* C19 (the link total): the N of the line "Checked N links" is the number of
\* Uses events that extraction emitted over all HTML documents, each use
\* counted once, however many uses a href has.
C19_CheckedLinksTotal ==
    pc = "done" =>
        /\ used_links_len = UsesExtracted(1)
        /\ \E i \in DOMAIN stdout :
              stdout[i] = [line |-> "Checked links", n |-> UsesExtracted(1)]

\* The defects the driver derives from used_links and defined_links: one per
\* link of every used href that is not defined.
DriverDefects ==
    UNION {{BrokenLink(hard_404_main(defined_links, h, check_anchors), h,
                       [path |-> used_links[h][i].path,
                        paragraph |-> used_links[h][i].paragraph]) :
               i \in DOMAIN used_links[h]} :
           h \in {k \in MainHref : Broken(k)}}

\* C20 (the two aggregation paths agree): the set of defects (href, witness
\* path, witness paragraph, hard or soft) of the driver is the set of
\* BrokenLinks that get_broken_links yields on a BrokenLinkCollector that
\* ingested the same events per document, was merged, and then ingested a
\* Defines for every file href.
C20_AggregationPathsAgree ==
    pc = "done" =>
        \A scribbled \in BOOLEAN :
            SeqRange(get_broken_links(RunCollector(scribbled), check_anchors))
              = DriverDefects

\* ------------------------------------------------------------ claims 21-24

\* C21 (lease isolation): every byte handed out through a Lease, by read or
\* by fill_buf, was produced by the reader passed to the lease call that made
\* that Lease; bytes an earlier reader left in the buffer never reach a later
\* Lease.
C21_LeaseIsolation == \A o \in lease_out : o[2].reader = o[1]

\* C22 (reader slot lifecycle): at most one Lease exists at a time; the slot
\* holds an initialized reader, the one passed to the lease call that made the
\* Lease, exactly while a Lease exists, and no read has reached the slot
\* uninitialized; every reader passed to lease has been dropped exactly once
\* if its Lease has been dropped and not at all while its Lease exists, and
\* none was overwritten in the slot without a drop.
C22_ReaderSlotLifecycle ==
    /\ Cardinality(leases) <= 1
    /\ (reader.inner # Uninit) <=> (leases # {})
    /\ leases # {} => leases = {reader.inner.id}
    /\ ~read_uninit
    /\ overwritten = {}
    /\ \A i, j \in DOMAIN dropped : dropped[i] = dropped[j] => i = j
    /\ {dropped[i] : i \in DOMAIN dropped} = (1..nleases) \ leases

\* The first Lease was read from and dropped, and a second Lease has been
\* made and read from.
C22_Witness ==
    /\ dropped = <<1>>
    /\ leases = {2}
    /\ \E o \in lease_out : o[1] = 1
    /\ \E o \in lease_out : o[1] = 2

\* The Stat of a use case; a use case without an entry has recorded nothing.
Stat_of(usecase) == IF usecase \in DOMAIN RESULTS THEN RESULTS[usecase] ELSE Stat_default

\* C23 (allocation statistics are complete): whenever no callback is running
\* (the Mutex of RESULTS is free), each use case's current is the bytes of
\* its on_alloc callbacks minus the bytes of its on_dealloc callbacks and its
\* total is the bytes of its on_alloc callbacks, whatever the interleaving of
\* the callbacks on the threads was; no callback's size is missing.
C23_AllocationStatsComplete ==
    results_mutex = 0 =>
        \A usecase \in Allocation :
            /\ Stat_of(usecase).current = allocated[usecase] - deallocated[usecase]
            /\ Stat_of(usecase).total = allocated[usecase]

\* The values current has held after the calls recorded so far, the 0 of the
\* default Stat included.
HeldByCurrent == {SumSeq(SubSeq(stat_sizes, 1, i)) : i \in 0..Len(stat_sizes)}

\* The sum of the positive sizes of a sequence.
RECURSIVE SumPositive(_)
SumPositive(q) ==
    IF q = <<>> THEN 0
    ELSE (IF Head(q) > 0 THEN Head(q) ELSE 0) + SumPositive(Tail(q))

\* C24 (Stat peak tracking): after any sequence of record calls on a default
\* Stat, with positive and negative sizes, peak is at least current and is
\* the greatest of 0 and the values current has held, and total is the sum of
\* the positive sizes recorded; and no record call lowers peak.
C24_PeakTracking ==
    /\ [](/\ stat.current = SumSeq(stat_sizes)
          /\ stat.peak >= stat.current
          /\ stat.peak \in HeldByCurrent
          /\ \A held \in HeldByCurrent : stat.peak >= held
          /\ stat.total = SumPositive(stat_sizes))
    /\ [][stat'.peak >= stat.peak]_vars

\* Sizes of both signs were recorded: current has been at its peak above 0,
\* has come back to it after a fall, and is below 0 now.
C24_Witness ==
    /\ Len(stat_sizes) = 4
    /\ stat.peak > 0
    /\ stat.current < 0
    /\ stat.total > stat.peak

====
